---- MODULE Spec2Model ----
(***************************************************************************)
(* Chat Organizer: the classification engine (pipeline.ts), the hierarchy  *)
(* store (tree.ts), the similarity utility (similarity.ts), the            *)
(* fingerprint (hash.ts) and the ingestion queue of the content script     *)
(* (content.ts), as a state machine.                                       *)
(*                                                                         *)
(* Strings the program computes on (passage texts, first sentences,        *)
(* labels) are sequences of UTF-16 code units.  Similarity scores and      *)
(* thresholds are in hundredths (0.8 is 80).  Every step of the model is   *)
(* one run of the single JavaScript thread from one suspension point       *)
(* (await) to the next.                                                    *)
(***************************************************************************)
EXTENDS Integers, Sequences, FiniteSets, TLC

\* ------------------------------------------------------------------ bounds

\* Messages the page can hold.
MaxDom == 3
\* Debounced MutationObserver scans after the initial parse.
MaxScans == 1
\* Page reloads (each re-runs main()).
MaxReloads == 1
\* Messages the page holds at most when it is reloaded.
MaxReloadDom == 1
\* Direct classifyPrompt calls of the engine-only specification.
MaxCalls == 3
\* Times the page replaces the text of its last message.
MaxRewrites == 1
\* Messages the page holds at most when it replaces the text of the last.
MaxRewriteDom == 1
\* Reloads and replacements together.
MaxPageEvents == 1
\* spawnNode calls made on their own.
MaxSpawns == 2
\* The prompt indices of insertPromptIntoNode calls made on their own are
\* below this.
MaxPromptIndex == 2
\* Milliseconds Date.now() advances by while identifiers are generated.
MaxNow == 1
\* Candidates of a bestMatch call made on its own.
MaxCandidates == 3
\* bestMatch calls made on one query and candidate list.
MaxProbeCalls == 2

\* ------------------------------------------------------------ hash.ts

\* A 32-bit value is kept as its two 16-bit halves, so that no intermediate
\* product leaves the range of the checker's integers.
Word16 == 65536

HashSeed == [hi |-> 0, lo |-> 5381]

\* h = (Math.imul(h, 31) + c) | 0, on the two halves (mod 2^32).
HashStep(h, c) ==
  LET lo31 == h.lo * 31 + c
  IN  [hi |-> (h.hi * 31 + (lo31 \div Word16)) % Word16,
       lo |-> lo31 % Word16]

RECURSIVE HashFold(_, _)
HashFold(h, text) ==
  IF text = <<>> THEN h ELSE HashFold(HashStep(h, Head(text)), Tail(text))

HexDigit(d) ==
  CASE d = 0 -> "0" [] d = 1 -> "1" [] d = 2 -> "2" [] d = 3 -> "3"
    [] d = 4 -> "4" [] d = 5 -> "5" [] d = 6 -> "6" [] d = 7 -> "7"
    [] d = 8 -> "8" [] d = 9 -> "9" [] d = 10 -> "a" [] d = 11 -> "b"
    [] d = 12 -> "c" [] d = 13 -> "d" [] d = 14 -> "e" [] OTHER -> "f"

\* Four hex digits of a 16-bit half, most significant first.
Hex4(w) ==
  HexDigit(w \div 4096) \o HexDigit((w \div 256) % 16)
    \o HexDigit((w \div 16) % 16) \o HexDigit(w % 16)

\* (h >>> 0).toString(16).padStart(8, '0')
hashPromptOf(text) ==
  LET h == HashFold(HashSeed, text) IN Hex4(h.hi) \o Hex4(h.lo)

\* ------------------------------------------------------ similarity.ts

\* Scores are kept in hundredths.
Scale == 100

RECURSIVE SumSeq(_)
SumSeq(s) == IF s = <<>> THEN 0 ELSE Head(s) + SumSeq(Tail(s))

Dot(a, b) == SumSeq([i \in 1..Len(a) |-> a[i] * b[i]])

\* Math.sqrt on the magnitudes the model uses (perfect squares); the floor
\* otherwise.
Sqrt(n) == CHOOSE r \in 0..n : r * r <= n /\ (r + 1) * (r + 1) > n

cosineSimilarity(a, b) ==
  IF Len(a) # Len(b) \/ Len(a) = 0 THEN 0
  ELSE LET denom == Sqrt(Dot(a, a)) * Sqrt(Dot(b, b))
       IN  IF denom = 0 THEN 0 ELSE (Dot(a, b) * Scale) \div denom

\* bestMatch's null.
NoHit == [id |-> "", score |-> 0]

RECURSIVE BestFrom(_, _, _, _)
BestFrom(best, queryEmbedding, candidates, threshold) ==
  IF candidates = <<>> THEN best
  ELSE LET c     == Head(candidates)
           score == cosineSimilarity(queryEmbedding, c.embedding)
           next  == IF Len(c.embedding) = 0 THEN best
                    ELSE IF score >= threshold /\ (best = NoHit \/ score > best.score)
                         THEN [id |-> c.id, score |-> score]
                         ELSE best
       IN  BestFrom(next, queryEmbedding, Tail(candidates), threshold)

\* A faulty variant of bestMatch: at equal score the later candidate is kept.
RECURSIVE BestFromLastTie(_, _, _, _)
BestFromLastTie(best, queryEmbedding, candidates, threshold) ==
  IF candidates = <<>> THEN best
  ELSE LET c     == Head(candidates)
           score == cosineSimilarity(queryEmbedding, c.embedding)
           next  == IF Len(c.embedding) = 0 THEN best
                    ELSE IF score >= threshold /\ (best = NoHit \/ score >= best.score)
                         THEN [id |-> c.id, score |-> score]
                         ELSE best
       IN  BestFromLastTie(next, queryEmbedding, Tail(candidates), threshold)

bestMatchLastTie(queryEmbedding, candidates, threshold) ==
  BestFromLastTie(NoHit, queryEmbedding, candidates, threshold)

\* A faulty variant of bestMatch: candidates with an empty vector are scored
\* like the others.
RECURSIVE BestFromNoSkip(_, _, _, _)
BestFromNoSkip(best, queryEmbedding, candidates, threshold) ==
  IF candidates = <<>> THEN best
  ELSE LET c     == Head(candidates)
           score == cosineSimilarity(queryEmbedding, c.embedding)
           next  == IF score >= threshold /\ (best = NoHit \/ score > best.score)
                    THEN [id |-> c.id, score |-> score]
                    ELSE best
       IN  BestFromNoSkip(next, queryEmbedding, Tail(candidates), threshold)

bestMatchNoSkip(queryEmbedding, candidates, threshold) ==
  BestFromNoSkip(NoHit, queryEmbedding, candidates, threshold)

\* A faulty variant of bestMatch: the first candidate reaching the threshold
\* is kept.
RECURSIVE BestFromFirst(_, _, _, _)
BestFromFirst(best, queryEmbedding, candidates, threshold) ==
  IF candidates = <<>> THEN best
  ELSE LET c     == Head(candidates)
           score == cosineSimilarity(queryEmbedding, c.embedding)
           next  == IF Len(c.embedding) = 0 THEN best
                    ELSE IF score >= threshold /\ best = NoHit
                         THEN [id |-> c.id, score |-> score]
                         ELSE best
       IN  BestFromFirst(next, queryEmbedding, Tail(candidates), threshold)

bestMatchFirst(queryEmbedding, candidates, threshold) ==
  BestFromFirst(NoHit, queryEmbedding, candidates, threshold)

bestMatch(queryEmbedding, candidates, threshold) ==
  BestFrom(NoHit, queryEmbedding, candidates, threshold)

\* ------------------------------------------------------------- tree.ts

RootId == "root"

\* An object or set with no keys.
EmptyMap == [k \in {} |-> 0]

\* createIndex: the store with the single rank-0 root.  nodeKeys is the
\* insertion order of the keys of index.nodes; embeddings is the Map, as the
\* sequence of its entries in insertion order.
createIndex ==
  [prompts    |-> <<>>,
   nodes      |-> (RootId :> [id |-> RootId, label |-> <<114, 111, 111, 116>>,
                              rank |-> 0, children |-> <<>>,
                              promptIndices |-> <<>>, promptCount |-> 0]),
   nodeKeys   |-> <<RootId>>,
   embeddings |-> <<>>,
   cache      |-> EmptyMap]

HasNode(index, id) == id \in DOMAIN index.nodes

SeqHas(s, x) == \E i \in 1..Len(s) : s[i] = x

\* index.embeddings.has(id) / .get(id) / .set(id, embedding)
EmbHas(embeddings, id) == \E i \in 1..Len(embeddings) : embeddings[i].id = id

EmbGet(embeddings, id) ==
  embeddings[CHOOSE i \in 1..Len(embeddings) : embeddings[i].id = id].embedding

EmbSet(embeddings, id, embedding) ==
  IF EmbHas(embeddings, id)
  THEN [i \in 1..Len(embeddings) |->
          IF embeddings[i].id = id THEN [id |-> id, embedding |-> embedding]
          ELSE embeddings[i]]
  ELSE Append(embeddings, [id |-> id, embedding |-> embedding])

\* An optional argument: <<>> when left out, <<v>> when given as v.
Undefined == <<>>
Given(v) == <<v>>

\* A faulty variant of spawnNode: the node is linked and its vector
\* registered, but it is not stored.
spawnNodeNotStored(index, parentId, label, rank, embedding, id) ==
  LET linked == IF parentId \in DOMAIN index.nodes
                THEN [index EXCEPT !.nodes[parentId].children = Append(@, id)]
                ELSE index
  IN  IF embedding = Undefined THEN linked
      ELSE [linked EXCEPT !.embeddings = EmbSet(@, id, embedding[1])]

\* A faulty variant of spawnNode: the node is stored and its vector
\* registered, but it is appended to no children list.
spawnNodeUnlinked(index, parentId, label, rank, embedding, id) ==
  LET node   == [id |-> id, label |-> label, rank |-> rank, children |-> <<>>,
                 promptIndices |-> <<>>, promptCount |-> 0]
      stored == [index EXCEPT
                   !.nodes = (id :> node) @@ index.nodes,
                   !.nodeKeys = IF id \in DOMAIN index.nodes THEN @ ELSE Append(@, id)]
  IN  IF embedding = Undefined THEN stored
      ELSE [stored EXCEPT !.embeddings = EmbSet(@, id, embedding[1])]

\* A faulty variant of spawnNode: a node whose parent does not exist is
\* linked under root.
spawnNodeUnderRoot(index, parentId, label, rank, embedding, id) ==
  LET node   == [id |-> id, label |-> label, rank |-> rank, children |-> <<>>,
                 promptIndices |-> <<>>, promptCount |-> 0]
      stored == [index EXCEPT
                   !.nodes = (id :> node) @@ index.nodes,
                   !.nodeKeys = IF id \in DOMAIN index.nodes THEN @ ELSE Append(@, id)]
      linked == IF parentId \in DOMAIN stored.nodes
                THEN [stored EXCEPT !.nodes[parentId].children = Append(@, id)]
                ELSE [stored EXCEPT !.nodes["root"].children = Append(@, id)]
  IN  IF embedding = Undefined THEN linked
      ELSE [linked EXCEPT !.embeddings = EmbSet(@, id, embedding[1])]

\* spawnNode: the new node is stored under id; it is linked only when the
\* parent exists; the vector is registered when one is given.
spawnNode(index, parentId, label, rank, embedding, id) ==
  LET node   == [id |-> id, label |-> label, rank |-> rank, children |-> <<>>,
                 promptIndices |-> <<>>, promptCount |-> 0]
      stored == [index EXCEPT
                   !.nodes = (id :> node) @@ index.nodes,
                   !.nodeKeys = IF id \in DOMAIN index.nodes THEN @ ELSE Append(@, id)]
      linked == IF parentId \in DOMAIN stored.nodes
                THEN [stored EXCEPT !.nodes[parentId].children = Append(@, id)]
                ELSE stored
  IN  IF embedding = Undefined THEN linked
      ELSE [linked EXCEPT !.embeddings = EmbSet(@, id, embedding[1])]

\* A faulty variant of insertPromptIntoNode: the index is pushed without the
\* includes test.
insertPromptAlways(index, nodeId, promptIndex) ==
  IF ~HasNode(index, nodeId) THEN index
  ELSE [index EXCEPT !.nodes[nodeId].promptIndices = Append(@, promptIndex)]

\* insertPromptIntoNode: nothing without the node; the index is pushed unless
\* the node includes it.
insertPromptIntoNode(index, nodeId, promptIndex) ==
  IF ~HasNode(index, nodeId) THEN index
  ELSE IF SeqHas(index.nodes[nodeId].promptIndices, promptIndex) THEN index
  ELSE [index EXCEPT !.nodes[nodeId].promptIndices = Append(@, promptIndex)]

\* recountSubtree returns the nodes with the subtree's counts rewritten and
\* the subtree's total.
RECURSIVE recountSubtree(_, _)
RECURSIVE RecountChildren(_, _, _)
RecountChildren(nodes, children, total) ==
  IF children = <<>> THEN [nodes |-> nodes, total |-> total]
  ELSE LET r == recountSubtree(nodes, Head(children))
       IN  RecountChildren(r.nodes, Tail(children), total + r.total)

recountSubtree(nodes, nodeId) ==
  IF nodeId \notin DOMAIN nodes THEN [nodes |-> nodes, total |-> 0]
  ELSE LET r == RecountChildren(nodes, nodes[nodeId].children,
                                Len(nodes[nodeId].promptIndices))
       IN  [nodes |-> [r.nodes EXCEPT ![nodeId].promptCount = r.total],
            total |-> r.total]

\* A faulty variant of updatePromptCounts: root's count is added to, not
\* rewritten.
updatePromptCountsAdding(index) ==
  [index EXCEPT !.nodes =
     [recountSubtree(index.nodes, RootId).nodes EXCEPT
        ![RootId].promptCount =
          index.nodes[RootId].promptCount
            + recountSubtree(index.nodes, RootId).total]]

\* updatePromptCounts: recountSubtree from root.
updatePromptCounts(index) ==
  [index EXCEPT !.nodes = recountSubtree(index.nodes, RootId).nodes]

\* getChildCandidates(index, parentId, rank)
getChildCandidates(index, parentId, rank) ==
  IF ~HasNode(index, parentId) THEN <<>>
  ELSE LET kept == SelectSeq(index.nodes[parentId].children,
                     LAMBDA id : /\ HasNode(index, id)
                                 /\ index.nodes[id].rank = rank
                                 /\ EmbHas(index.embeddings, id))
       IN  [i \in 1..Len(kept) |->
              [id |-> kept[i], embedding |-> EmbGet(index.embeddings, kept[i])]]

getAllEmbeddedCandidates(index) == index.embeddings

\* ------------------------------------------------- pipeline.ts (pure part)

\* String.prototype.trim's white space.
IsSpace(c) == c \in {9, 10, 11, 12, 13, 32, 160, 5760, 8232, 8233, 8239, 8287,
                     12288, 65279} \/ (c >= 8192 /\ c <= 8202)

RECURSIVE TrimStart(_)
TrimStart(s) ==
  IF s # <<>> /\ IsSpace(Head(s)) THEN TrimStart(Tail(s)) ELSE s

RECURSIVE TrimEnd(_)
TrimEnd(s) ==
  IF s # <<>> /\ IsSpace(s[Len(s)]) THEN TrimEnd(SubSeq(s, 1, Len(s) - 1)) ELSE s

Trim(s) == TrimEnd(TrimStart(s))

\* The cut of the fallback label.
LabelCut == 40

\* text.slice(0, 40).trim()
FallbackLabel(text) ==
  Trim(SubSeq(text, 1, IF Len(text) < LabelCut THEN Len(text) ELSE LabelCut))

\* fetchLabel's value once the label call has answered (not rejected).
fetchLabel(text, res) == IF res.kind = "ok" THEN res.label ELSE FallbackLabel(text)

\* A faulty variant of commit: the recount is left out.
commitNoRecount(index, hash, nodeId, confidence, isNewNode, promptIndex) ==
  LET attached == insertPromptIntoNode(index, nodeId, promptIndex)
  IN  [index  |-> [attached EXCEPT
                     !.cache = (hash :> [nodeId |-> nodeId, confidence |-> confidence])
                               @@ attached.cache],
       result |-> [nodeId |-> nodeId, confidence |-> confidence,
                   isNewNode |-> isNewNode]]

\* A faulty variant of commit: the new entry replaces the cache.
commitCacheReplaced(index, hash, nodeId, confidence, isNewNode, promptIndex) ==
  LET counted == updatePromptCounts(insertPromptIntoNode(index, nodeId, promptIndex))
  IN  [index  |-> [counted EXCEPT
                     !.cache = (hash :> [nodeId |-> nodeId, confidence |-> confidence])],
       result |-> [nodeId |-> nodeId, confidence |-> confidence,
                   isNewNode |-> isNewNode]]

\* commit: attach, recount, cache; the value is the store and the result.
commit(index, hash, nodeId, confidence, isNewNode, promptIndex) ==
  LET counted == updatePromptCounts(insertPromptIntoNode(index, nodeId, promptIndex))
  IN  [index  |-> [counted EXCEPT
                     !.cache = (hash :> [nodeId |-> nodeId, confidence |-> confidence])
                               @@ counted.cache],
       result |-> [nodeId |-> nodeId, confidence |-> confidence,
                   isNewNode |-> isNewNode]]

\* A faulty variant of CacheHit: the cache is not looked at.
CacheMiss(index, hash) == FALSE

\* Step 1's lookup: index.cache[hash] is truthy.
CacheHit(index, hash) == hash \in DOMAIN index.cache

\* ------------------------------------------------------- the environment

\* Passage texts: "Aa" and "BB" have the same fingerprint, "Cc" and "Dd"
\* their own.
TextAa == <<65, 97>>
TextBB == <<66, 66>>
TextCc == <<67, 99>>
TextDd == <<68, 100>>

Texts == { TextAa, TextBB, TextCc, TextDd }

\* hashPrompt: the fingerprints of the passage texts are computed once.
HashTable == [t \in Texts |-> hashPromptOf(t)]

hashPrompt(text) == IF text \in Texts THEN HashTable[text] ELSE hashPromptOf(text)

Passage(fullText, headingText) ==
  [fullText |-> fullText, headingText |-> headingText]

\* What parseMessages can find at position k of the page, {fullText,
\* headingText}: the first message is "Aa"; the second repeats its text,
\* has its fingerprint or has neither; the later ones are "Dd".
PassageChoices(k) ==
  IF k = 0 THEN { Passage(TextAa, <<72, 97>>) }
  ELSE IF k = 1 THEN { Passage(TextAa, <<72, 97>>), Passage(TextBB, <<72, 98>>),
                       Passage(TextCc, <<72, 99>>) }
  ELSE { Passage(TextDd, <<72, 100>>) }

\* What a replaced message reads.
RewriteChoices == { Passage(TextCc, <<72, 99>>) }

\* The vectors the embedding capability answers with: both of norm 5, so
\* that the scores are 0.6 and 1.
Vectors == { <<5, 0>>, <<3, 4>> }

\* The labels the label capability answers with.
ServiceLabels == { <<76>> }

\* A capability call ends in {ok: true, ...}, in {ok: false} or with the
\* promise of chrome.runtime.sendMessage rejected.
EmbedResponses ==
  { [kind |-> "ok", embedding |-> v] : v \in Vectors }
    \cup { [kind |-> "error", embedding |-> <<>>],
           [kind |-> "reject", embedding |-> <<>>] }

LabelResponses ==
  { [kind |-> "ok", label |-> l] : l \in ServiceLabels }
    \cup { [kind |-> "error", label |-> <<>>],
           [kind |-> "reject", label |-> <<>>] }

SaveResponses == { "ok", "reject" }

\* DEFAULT_SETTINGS' thresholds, in hundredths.
DefaultThresholdHigh == 80
DefaultThresholdLow == 50

\* The settings main() can load: with or without an API key.
SettingsChoices ==
  { [geminiApiKey |-> k, thresholdHigh |-> DefaultThresholdHigh,
     thresholdLow |-> DefaultThresholdLow] : k \in BOOLEAN }

\* The thresholds of the engine-only specification, within the ranges of the
\* options page's sliders: the defaults, a low threshold above 0.6, and a
\* high threshold below 0.6 with the low threshold at 0.
ThresholdChoices == { <<DefaultThresholdHigh, DefaultThresholdLow>>, <<80, 75>>,
                      <<50, 0>> }

EngineSettings ==
  { [geminiApiKey |-> TRUE, thresholdHigh |-> t[1], thresholdLow |-> t[2]] :
      t \in ThresholdChoices }

\* The prompt records a direct caller hands to classifyPrompt.
EngineInputs ==
  { [index |-> i, headingText |-> p.headingText, fullText |-> p.fullText] :
      i \in 0..(MaxCalls - 1), p \in PassageChoices(1) }
    \cup { [index |-> MaxCalls - 1, headingText |-> p.headingText,
            fullText |-> p.fullText] : p \in PassageChoices(2) }

\* ----------------------------------------------------------------- state

VARIABLES
  settings,         \* main's settings
  index,            \* main's index: the ConversationIndex
  processedHashes,  \* main's processedHashes
  processingQueue,  \* main's processingQueue
  isProcessing,     \* main's isProcessing
  drains,           \* the running activations of drainQueue / classifyPrompt
  initEmbeddings,   \* the activation of initializeEmbeddings
  dom,              \* the messages parseMessages finds in the page
  mainPc,           \* "noKey", "timer" (before the initial parse), "observing", "engine"
  debounceTimer,    \* the observer's debounce timer is set
  stored,           \* chrome.storage.local's conversation: <<>> or <<snapshot>>
  clock,            \* the number of identifiers spawnNode has generated
  scans,            \* observer scans so far
  reloads,          \* page reloads so far
  rewrites,         \* replacements of a message's text so far
  probe,            \* the inputs and outcomes of functions called on their own
  options,          \* the options page: its form and the settings it stored
  results,          \* what the direct classifyPrompt calls returned, in order
  commitCount,      \* history: commit() calls of this page load, per fingerprint
  failedMsgs        \* history: messages whose last classification of this page load failed

vars == << settings, index, processedHashes, processingQueue, isProcessing, drains,
           initEmbeddings, dom, mainPc, debounceTimer, stored, clock, scans,
           reloads, rewrites, probe, options, results, commitCount, failedMsgs >>

\* The harness variables outside their specifications.
NoProbe == [op |-> "none"]
NoOptions == [op |-> "none"]

NoMsg == [index |-> -1, headingText |-> <<>>, fullText |-> <<>>]
NoResult == [nodeId |-> "", confidence |-> 0, isNewNode |-> FALSE]

\* An activation of drainQueue (caller "drain") or of a direct classifyPrompt
\* call (caller "direct"), with the locals that live across its awaits.
\* pc names the await it is suspended on: "embed" (step 2), "label4",
\* "fullEmbed" and "label5" (step 5), "label6", "save"; "loop" is the head
\* of drainQueue's while loop, which runs on without suspension.
\* before, outcome, failedInPass, embedCalls and labelCalls are history.
NewActivation(caller) ==
  [pc |-> "loop", caller |-> caller, msg |-> NoMsg, hash |-> "",
   sentenceEmbedding |-> <<>>, rank1Hit |-> NoHit,
   fullEmbedding |-> <<>>, fullHit |-> NoHit,
   result |-> NoResult, saving |-> <<>>,
   before |-> <<>>, outcome |-> "none", failedInPass |-> FALSE,
   embedCalls |-> 0, labelCalls |-> 0]

ClassifyPcs == { "embed", "label4", "fullEmbed", "label5", "label6" }

\* The thread is between handlers: no activation is at the loop head.
Quiescent == \A i \in DOMAIN drains : drains[i].pc # "loop"

RemoveAt(s, i) == SubSeq(s, 1, i - 1) \o SubSeq(s, i + 1, Len(s))

\* The identifier spawnNode generates: node_<Date.now()>_<random>, taken to
\* be new at every call.
NodeIds ==
  [k \in 1..((MaxReloads + 1) * MaxDom + MaxCalls) |-> "node_" \o ToString(k)]

NewNodeId == NodeIds[clock + 1]

\* A faulty variant of Snapshot: the vectors are handed over too.
SnapshotWithVectors(idx) ==
  [prompts |-> idx.prompts, nodes |-> idx.nodes, nodeKeys |-> idx.nodeKeys,
   cache |-> idx.cache, embeddings |-> idx.embeddings]

\* What saveConversation is handed: the index without its vectors.
Snapshot(idx) ==
  [prompts |-> idx.prompts, nodes |-> idx.nodes, nodeKeys |-> idx.nodeKeys,
   cache |-> idx.cache]

\* --------------------------------------- pipeline.ts: classifyPrompt's runs

\* What one run of classifyPrompt, from one await to the next, comes to: it
\* suspends again ("await"), returns ("returned") or throws ("threw").
Suspend(idx, act) ==
  [kind |-> "await", index |-> idx, act |-> act, result |-> NoResult,
   failure |-> "", spawned |-> FALSE, committed |-> FALSE]

Return(idx, act, result, spawned, committed) ==
  [kind |-> "returned", index |-> idx, act |-> act, result |-> result,
   failure |-> "", spawned |-> spawned, committed |-> committed]

Throw(idx, act, failure) ==
  [kind |-> "threw", index |-> idx, act |-> act, result |-> NoResult,
   failure |-> failure, spawned |-> FALSE, committed |-> FALSE]

\* Step 1, and the sentence-embedding request of step 2.
classifyPrompt(a, idx) ==
  LET hash == hashPrompt(a.msg.fullText)
      a1   == [a EXCEPT !.hash = hash]
  IN  IF CacheHit(idx, hash)
      THEN LET cached == idx.cache[hash]
               idx1   == updatePromptCounts(
                           insertPromptIntoNode(idx, cached.nodeId, a.msg.index))
           IN  Return(idx1, a1,
                      [nodeId |-> cached.nodeId, confidence |-> cached.confidence,
                       isNewNode |-> FALSE],
                      FALSE, FALSE)
      ELSE Suspend(idx, [a1 EXCEPT !.pc = "embed", !.embedCalls = @ + 1])

\* A faulty variant of HasTopics: the escalation is always attempted.
AlwaysEscalate(idx) == TRUE

\* Step 5's entry test: Object.keys(index.nodes).length > 1
HasTopics(idx) == Cardinality(DOMAIN idx.nodes) > 1

\* A faulty variant of afterEmbed: a rank-2 match is committed with the score
\* of the rank-1 match.
afterEmbedRank1Score(a, idx, res, st) ==
  IF res.kind # "ok" THEN Throw(idx, a, "embedFailed")
  ELSE
    LET sentenceEmbedding == res.embedding
        rank1Candidates   == getChildCandidates(idx, RootId, 1)
        rank1Hit          == bestMatch(sentenceEmbedding, rank1Candidates,
                                       st.thresholdHigh)
        rank2Candidates   == getChildCandidates(idx, rank1Hit.id, 2)
        rank2Hit          == bestMatch(sentenceEmbedding, rank2Candidates,
                                       st.thresholdHigh)
    IN  IF rank1Hit # NoHit
        THEN IF rank2Hit # NoHit
             THEN LET c == commit(idx, a.hash, rank2Hit.id, rank1Hit.score, FALSE,
                                  a.msg.index)
                  IN  Return(c.index,
                             [a EXCEPT !.sentenceEmbedding = sentenceEmbedding],
                             c.result, FALSE, TRUE)
             ELSE Suspend(idx, [a EXCEPT !.pc = "label4",
                                         !.sentenceEmbedding = sentenceEmbedding,
                                         !.rank1Hit = rank1Hit,
                                         !.labelCalls = @ + 1])
        ELSE IF HasTopics(idx)
             THEN Suspend(idx, [a EXCEPT !.pc = "fullEmbed",
                                         !.sentenceEmbedding = sentenceEmbedding,
                                         !.embedCalls = @ + 1])
             ELSE Suspend(idx, [a EXCEPT !.pc = "label6",
                                         !.sentenceEmbedding = sentenceEmbedding,
                                         !.labelCalls = @ + 1])

\* Steps 2 to 4 and the choice of step 5 or 6, once the sentence embedding
\* has answered.
afterEmbed(a, idx, res, st) ==
  IF res.kind # "ok" THEN Throw(idx, a, "embedFailed")
  ELSE
    LET sentenceEmbedding == res.embedding
        rank1Candidates   == getChildCandidates(idx, RootId, 1)
        rank1Hit          == bestMatch(sentenceEmbedding, rank1Candidates,
                                       st.thresholdHigh)
        rank2Candidates   == getChildCandidates(idx, rank1Hit.id, 2)
        rank2Hit          == bestMatch(sentenceEmbedding, rank2Candidates,
                                       st.thresholdHigh)
    IN  IF rank1Hit # NoHit
        THEN IF rank2Hit # NoHit
             THEN LET c == commit(idx, a.hash, rank2Hit.id, rank2Hit.score, FALSE,
                                  a.msg.index)
                  IN  Return(c.index,
                             [a EXCEPT !.sentenceEmbedding = sentenceEmbedding],
                             c.result, FALSE, TRUE)
             ELSE Suspend(idx, [a EXCEPT !.pc = "label4",
                                         !.sentenceEmbedding = sentenceEmbedding,
                                         !.rank1Hit = rank1Hit,
                                         !.labelCalls = @ + 1])
        ELSE IF HasTopics(idx)
             THEN Suspend(idx, [a EXCEPT !.pc = "fullEmbed",
                                         !.sentenceEmbedding = sentenceEmbedding,
                                         !.embedCalls = @ + 1])
             ELSE Suspend(idx, [a EXCEPT !.pc = "label6",
                                         !.sentenceEmbedding = sentenceEmbedding,
                                         !.labelCalls = @ + 1])

\* A faulty variant of afterLabel4: the node is committed with confidence 0.
afterLabel4NoScore(a, idx, res, id) ==
  IF res.kind = "reject" THEN Throw(idx, a, "labelRejected")
  ELSE LET label == fetchLabel(a.msg.headingText, res)
           sub   == spawnNode(idx, a.rank1Hit.id, label, 2,
                              Given(a.sentenceEmbedding), id)
           c     == commit(sub, a.hash, id, 0, TRUE, a.msg.index)
       IN  Return(c.index, a, c.result, TRUE, TRUE)

\* Step 4's miss, once the label call has answered.
afterLabel4(a, idx, res, id) ==
  IF res.kind = "reject" THEN Throw(idx, a, "labelRejected")
  ELSE LET label == fetchLabel(a.msg.headingText, res)
           sub   == spawnNode(idx, a.rank1Hit.id, label, 2,
                              Given(a.sentenceEmbedding), id)
           c     == commit(sub, a.hash, id, a.rank1Hit.score, TRUE, a.msg.index)
       IN  Return(c.index, a, c.result, TRUE, TRUE)

\* A faulty variant of IsHeader: the rank of the node is not looked at.
IsAnyNode(idx, id) == HasNode(idx, id)

\* Step 5's test of the node hit: hitNode && hitNode.rank === 1
IsHeader(idx, id) == HasNode(idx, id) /\ idx.nodes[id].rank = 1

\* A faulty variant of afterFullEmbed: a direct attach is committed with
\* confidence 0.
afterFullEmbedNoScore(a, idx, res, st) ==
  IF res.kind = "reject" THEN Throw(idx, a, "fullEmbedRejected")
  ELSE
    LET allCandidates == getAllEmbeddedCandidates(idx)
        fullHit       == IF res.kind = "ok"
                         THEN bestMatch(res.embedding, allCandidates, st.thresholdLow)
                         ELSE NoHit
    IN  IF fullHit # NoHit
        THEN IF IsHeader(idx, fullHit.id)
             THEN Suspend(idx, [a EXCEPT !.pc = "label5",
                                         !.fullEmbedding = res.embedding,
                                         !.fullHit = fullHit,
                                         !.labelCalls = @ + 1])
             ELSE LET c == commit(idx, a.hash, fullHit.id, 0, FALSE,
                                  a.msg.index)
                  IN  Return(c.index, [a EXCEPT !.fullEmbedding = res.embedding],
                             c.result, FALSE, TRUE)
        ELSE Suspend(idx, [a EXCEPT !.pc = "label6",
                                    !.fullEmbedding = res.embedding,
                                    !.labelCalls = @ + 1])

\* Step 5, once the full-text embedding has answered.
afterFullEmbed(a, idx, res, st) ==
  IF res.kind = "reject" THEN Throw(idx, a, "fullEmbedRejected")
  ELSE
    LET allCandidates == getAllEmbeddedCandidates(idx)
        fullHit       == IF res.kind = "ok"
                         THEN bestMatch(res.embedding, allCandidates, st.thresholdLow)
                         ELSE NoHit
    IN  IF fullHit # NoHit
        THEN IF IsHeader(idx, fullHit.id)
             THEN Suspend(idx, [a EXCEPT !.pc = "label5",
                                         !.fullEmbedding = res.embedding,
                                         !.fullHit = fullHit,
                                         !.labelCalls = @ + 1])
             ELSE LET c == commit(idx, a.hash, fullHit.id, fullHit.score, FALSE,
                                  a.msg.index)
                  IN  Return(c.index, [a EXCEPT !.fullEmbedding = res.embedding],
                             c.result, FALSE, TRUE)
        ELSE Suspend(idx, [a EXCEPT !.pc = "label6",
                                    !.fullEmbedding = res.embedding,
                                    !.labelCalls = @ + 1])

\* A faulty variant of afterLabel5: the new node is registered with the
\* sentence vector.
afterLabel5SentenceVector(a, idx, res, id) ==
  IF res.kind = "reject" THEN Throw(idx, a, "labelRejected")
  ELSE LET label == fetchLabel(a.msg.headingText, res)
           sub   == spawnNode(idx, a.fullHit.id, label, 2,
                              Given(a.sentenceEmbedding), id)
           c     == commit(sub, a.hash, id, a.fullHit.score, TRUE, a.msg.index)
       IN  Return(c.index, a, c.result, TRUE, TRUE)

\* Step 5's hit on a rank-1 node, once the label call has answered.
afterLabel5(a, idx, res, id) ==
  IF res.kind = "reject" THEN Throw(idx, a, "labelRejected")
  ELSE LET label == fetchLabel(a.msg.headingText, res)
           sub   == spawnNode(idx, a.fullHit.id, label, 2,
                              Given(a.fullEmbedding), id)
           c     == commit(sub, a.hash, id, a.fullHit.score, TRUE, a.msg.index)
       IN  Return(c.index, a, c.result, TRUE, TRUE)


\* A faulty variant of afterLabel6: the passage is attached to root, not to
\* the header spawned for it.
afterLabel6AttachRoot(a, idx, res, id) ==
  IF res.kind = "reject" THEN Throw(idx, a, "labelRejected")
  ELSE LET label  == fetchLabel(a.msg.headingText, res)
           header == spawnNode(idx, RootId, label, 1,
                               Given(a.sentenceEmbedding), id)
           c      == commit(header, a.hash, RootId, 0, TRUE, a.msg.index)
       IN  Return(c.index, a, c.result, TRUE, TRUE)

\* Step 6, once the label call has answered.
afterLabel6(a, idx, res, id) ==
  IF res.kind = "reject" THEN Throw(idx, a, "labelRejected")
  ELSE LET label  == fetchLabel(a.msg.headingText, res)
           header == spawnNode(idx, RootId, label, 1,
                               Given(a.sentenceEmbedding), id)
           c      == commit(header, a.hash, id, 0, TRUE, a.msg.index)
       IN  Return(c.index, a, c.result, TRUE, TRUE)

\* ------------------------------------------- content.ts: the ingestion queue

\* A faulty variant of DrainGuard: isProcessing is not looked at.
DrainGuardNoFlag(processing, queue) == Len(queue) > 0

\* drainQueue's entry test: if (isProcessing || processingQueue.length === 0) return
DrainGuard(processing, queue) == ~(processing \/ Len(queue) = 0)

\* A faulty variant of ProcessingAtStart: the flag is not raised.
ProcessingNotSet == FALSE

\* isProcessing once drainQueue has passed its entry test.
ProcessingAtStart == TRUE

\* A faulty variant of Shift: the message is taken from the tail.
ShiftFromEnd(queue) ==
  [msg |-> queue[Len(queue)], rest |-> SubSeq(queue, 1, Len(queue) - 1)]

\* processingQueue.shift(): the message taken and the queue left.
Shift(queue) == [msg |-> Head(queue), rest |-> Tail(queue)]

\* A faulty variant of LoopCondition: the loop ends at the first failure.
LoopUntilFailure(a, queue) == Len(queue) > 0 /\ ~a.failedInPass

\* drainQueue's loop test: while (processingQueue.length > 0), in activation a.
LoopCondition(a, queue) == Len(queue) > 0

\* A faulty variant of ProcessingAfterDrain: the flag is left raised.
ProcessingLeftSet == TRUE

\* isProcessing after the loop.
ProcessingAfterDrain == FALSE

\* A faulty variant of CatchPop: the record is left in the list.
CatchNoPop(prompts) == prompts

\* The catch block's index.prompts.pop().
CatchPop(prompts) ==
  IF prompts = <<>> THEN prompts ELSE SubSeq(prompts, 1, Len(prompts) - 1)

\* commitCount with one more commit for hash.
Bump(counts, hash) ==
  IF hash \in DOMAIN counts THEN [counts EXCEPT ![hash] = @ + 1]
  ELSE (hash :> 1) @@ counts

\* The locals of a finished iteration are dead.
Cleared(a) ==
  [a EXCEPT !.sentenceEmbedding = <<>>, !.rank1Hit = NoHit,
            !.fullEmbedding = <<>>, !.fullHit = NoHit,
            !.embedCalls = 0, !.labelCalls = 0]

\* The direct caller's record of a call.
CallRecord(a, returned, result) ==
  [input |-> a.msg, returned |-> returned, result |-> result,
   embedCalls |-> a.embedCalls, labelCalls |-> a.labelCalls,
   sentenceEmbedding |-> a.sentenceEmbedding,
   fullEmbedding |-> a.fullEmbedding]

\* The caller's continuation of activation i of ds after a run of
\* classifyPrompt that came to out.  drainQueue: on a return
\* processedHashes.add(hash), renderTree() and the saveConversation request;
\* on a throw the catch block.  A direct caller records the outcome.
Continue(ds, i, out) ==
  LET a == out.act
  IN  /\ clock' = IF out.spawned THEN clock + 1 ELSE clock
      /\ commitCount' = IF out.committed THEN Bump(commitCount, a.hash)
                        ELSE commitCount
      /\ IF out.kind = "await"
         THEN /\ index' = out.index
              /\ drains' = [ds EXCEPT ![i] = a]
              /\ UNCHANGED << processedHashes, results, failedMsgs >>
         ELSE IF a.caller = "direct"
         THEN /\ index' = out.index
              /\ drains' = RemoveAt(ds, i)
              /\ results' = Append(results,
                                   CallRecord(a, out.kind = "returned", out.result))
              /\ UNCHANGED << processedHashes, failedMsgs >>
         ELSE IF out.kind = "returned"
         THEN /\ index' = out.index
              /\ processedHashes' = processedHashes \cup {a.hash}
              /\ drains' = [ds EXCEPT ![i] =
                              [Cleared(a) EXCEPT !.pc = "save",
                                                 !.result = out.result,
                                                 !.saving = <<Snapshot(out.index)>>,
                                                 !.before = <<>>]]
              /\ failedMsgs' = failedMsgs \ {a.msg}
              /\ UNCHANGED results
         ELSE /\ index' = [out.index EXCEPT !.prompts = CatchPop(@)]
              /\ drains' = [ds EXCEPT ![i] =
                              [Cleared(a) EXCEPT !.pc = "loop",
                                                 !.outcome = out.failure,
                                                 !.failedInPass = TRUE]]
              /\ failedMsgs' = failedMsgs \cup {a.msg}
              /\ UNCHANGED << processedHashes, results >>

\* initializeEmbeddings up to its first await: the nodes to embed, in the
\* order of Object.values(index.nodes).
initializeEmbeddings(idx, st) ==
  LET needsEmbed == SelectSeq(idx.nodeKeys,
                      LAMBDA id : /\ idx.nodes[id].rank > 0
                                  /\ ~EmbHas(idx.embeddings, id))
  IN  IF ~st.geminiApiKey \/ needsEmbed = <<>>
      THEN [pc |-> "done", needsEmbed |-> <<>>, pos |-> 0]
      ELSE [pc |-> "await", needsEmbed |-> needsEmbed, pos |-> 1]

\* The nodes initializeEmbeddings has still to ask a vector for (the one it
\* is waiting for included).
InitPending ==
  IF initEmbeddings.pc # "await" THEN {}
  ELSE { initEmbeddings.needsEmbed[k] :
           k \in initEmbeddings.pos..Len(initEmbeddings.needsEmbed) }

\* A faulty variant of HasApiKey: main goes on without a key.
IgnoresApiKey(st) == TRUE

\* main's bail-out test: if (!settings.geminiApiKey) return
HasApiKey(st) == st.geminiApiKey

\* A faulty variant of Main: processedHashes starts empty.
MainForgetful(st, snap) ==
  LET idx == IF snap = <<>> THEN createIndex
             ELSE [createIndex EXCEPT !.nodes = snap[1].nodes,
                                      !.nodeKeys = snap[1].nodeKeys,
                                      !.cache = snap[1].cache,
                                      !.prompts = snap[1].prompts]
  IN  [index           |-> idx,
       mainPc          |-> IF HasApiKey(st) THEN "timer" ELSE "noKey",
       initEmbeddings  |-> initializeEmbeddings(idx, st),
       processedHashes |-> {}]

\* main() up to its end, for the conversation snap holds (<<>>: none): the
\* restore, the no-key bail-out, the initializeEmbeddings call, and
\* processedHashes.  The queue is empty, isProcessing false, and the
\* 1200 ms timer of the initial parse is running.
Main(st, snap) ==
  LET idx == IF snap = <<>> THEN createIndex
             ELSE [createIndex EXCEPT !.nodes = snap[1].nodes,
                                      !.nodeKeys = snap[1].nodeKeys,
                                      !.cache = snap[1].cache,
                                      !.prompts = snap[1].prompts]
  IN  [index           |-> idx,
       mainPc          |-> IF HasApiKey(st) THEN "timer" ELSE "noKey",
       initEmbeddings  |-> initializeEmbeddings(idx, st),
       processedHashes |-> DOMAIN idx.cache]

\* ------------------------------------------------------------------ Init

\* The first load of a conversation's page: nothing is stored, the page
\* holds no message yet.
Init ==
  /\ settings \in SettingsChoices
  /\ index = Main(settings, <<>>).index
  /\ mainPc = Main(settings, <<>>).mainPc
  /\ initEmbeddings = Main(settings, <<>>).initEmbeddings
  /\ processedHashes = Main(settings, <<>>).processedHashes
  /\ processingQueue = <<>>
  /\ isProcessing = FALSE
  /\ drains = <<>>
  /\ dom = <<>>
  /\ debounceTimer = FALSE
  /\ stored = <<>>
  /\ clock = 0
  /\ scans = 0
  /\ reloads = 0
  /\ rewrites = 0
  /\ probe = NoProbe
  /\ options = NoOptions
  /\ results = <<>>
  /\ commitCount = EmptyMap
  /\ failedMsgs = {}

\* --------------------------------------------------------------- actions

\* A message appears in the page (an assistant turn has been rendered); the
\* observer, once installed, restarts its debounce timer.
AddMessage ==
  /\ Quiescent
  /\ mainPc \in { "noKey", "timer", "observing" }
  /\ Len(dom) < MaxDom
  /\ \E p \in PassageChoices(Len(dom)) :
       dom' = Append(dom, [index |-> Len(dom), headingText |-> p.headingText,
                           fullText |-> p.fullText])
  /\ debounceTimer' = (debounceTimer \/ mainPc = "observing")
  /\ UNCHANGED << settings, index, processedHashes, processingQueue, isProcessing,
                  drains, initEmbeddings, mainPc, stored, clock, scans, reloads, rewrites, probe, options,
                  results, commitCount, failedMsgs >>

\* Any other mutation under the observed container: the observer restarts
\* its debounce timer.
Mutate ==
  /\ Quiescent
  /\ mainPc = "observing"
  /\ ~debounceTimer
  /\ debounceTimer' = TRUE
  /\ UNCHANGED << settings, index, processedHashes, processingQueue, isProcessing,
                  drains, initEmbeddings, dom, mainPc, stored, clock, scans,
                  reloads, rewrites, probe, options, results, commitCount, failedMsgs >>

\* The page replaces the text of its last message while the observer is
\* installed (the reply is regenerated, or is still being streamed):
\* parseMessages finds another text at the same position; the observer
\* restarts its debounce timer.
Rewrite ==
  /\ Quiescent
  /\ mainPc = "observing"
  /\ rewrites < MaxRewrites
  /\ reloads + rewrites < MaxPageEvents
  /\ Len(dom) >= 1
  /\ Len(dom) <= MaxRewriteDom
  /\ \E p \in RewriteChoices :
       /\ p.fullText # dom[Len(dom)].fullText
       /\ dom' = [dom EXCEPT ![Len(dom)] =
                    [index |-> Len(dom) - 1, headingText |-> p.headingText,
                     fullText |-> p.fullText]]
  /\ rewrites' = rewrites + 1
  /\ debounceTimer' = TRUE
  /\ UNCHANGED << probe, options, settings, index, processedHashes, processingQueue, isProcessing,
                  drains, initEmbeddings, mainPc, stored, clock, scans, reloads,
                  results, commitCount, failedMsgs >>

\* parseMessages(), the processedHashes filter, the push onto the queue and
\* the drainQueue() call, up to drainQueue's loop head.
Scan ==
  LET unseen == SelectSeq(dom, LAMBDA m : hashPrompt(m.fullText) \notin processedHashes)
      queue1 == processingQueue \o unseen
      start  == Len(unseen) > 0 /\ DrainGuard(isProcessing, queue1)
  IN  /\ processingQueue' = queue1
      /\ isProcessing' = IF start THEN ProcessingAtStart ELSE isProcessing
      /\ drains' = IF start THEN Append(drains, NewActivation("drain")) ELSE drains

\* The 1200 ms timer: the initial parse, then the observer is installed.
InitialParse ==
  /\ Quiescent
  /\ mainPc = "timer"
  /\ Scan
  /\ mainPc' = "observing"
  /\ UNCHANGED << settings, index, processedHashes, initEmbeddings, dom,
                  debounceTimer, stored, clock, scans, reloads, rewrites, probe, options, results,
                  commitCount, failedMsgs >>

\* The observer's 600 ms debounce timer fires.
ObserverScan ==
  /\ Quiescent
  /\ mainPc = "observing"
  /\ debounceTimer
  /\ scans < MaxScans
  /\ debounceTimer' = FALSE
  /\ scans' = scans + 1
  /\ Scan
  /\ UNCHANGED << settings, index, processedHashes, initEmbeddings, dom, mainPc,
                  stored, clock, reloads, rewrites, probe, options, results, commitCount, failedMsgs >>

\* drainQueue at its loop head, up to its next await or its end: the loop
\* test, the shift, the processedHashes test, the push onto index.prompts
\* and classifyPrompt's first run.
DrainLoop ==
  \E i \in DOMAIN drains :
    /\ drains[i].pc = "loop"
    /\ IF ~LoopCondition(drains[i], processingQueue)
       THEN /\ isProcessing' = ProcessingAfterDrain
            /\ drains' = RemoveAt(drains, i)
            /\ UNCHANGED << index, processedHashes, processingQueue, results,
                            clock, commitCount, failedMsgs >>
       ELSE LET msg  == Shift(processingQueue).msg
                hash == hashPrompt(msg.fullText)
                a    == [NewActivation("drain") EXCEPT
                           !.msg = msg, !.hash = hash,
                           !.failedInPass = drains[i].failedInPass]
            IN  /\ processingQueue' = Shift(processingQueue).rest
                /\ UNCHANGED isProcessing
                /\ IF hash \in processedHashes
                   THEN /\ drains' = [drains EXCEPT ![i] =
                                        [a EXCEPT !.outcome = "skipped"]]
                        /\ UNCHANGED << index, processedHashes, results, clock,
                                        commitCount, failedMsgs >>
                   ELSE \E out \in { classifyPrompt(
                                        [a EXCEPT !.before = <<Snapshot(index)>>],
                                        [index EXCEPT !.prompts =
                                           Append(@, [index |-> msg.index,
                                                      fullText |-> msg.fullText,
                                                      firstSentence |-> msg.headingText,
                                                      hash |-> hash])]) } :
                          Continue(drains, i, out)
    /\ UNCHANGED << settings, initEmbeddings, dom, mainPc, debounceTimer, stored,
                    scans, reloads, rewrites, probe, options >>

\* The frame of a run of classifyPrompt.
ClassifyFrame ==
  UNCHANGED << settings, processingQueue, isProcessing, initEmbeddings, dom,
               mainPc, debounceTimer, stored, scans, reloads, rewrites, probe, options >>

\* The sentence embedding answers.
EmbedReturn ==
  \E i \in DOMAIN drains, res \in EmbedResponses :
    /\ Quiescent
    /\ drains[i].pc = "embed"
    /\ Continue(drains, i, afterEmbed(drains[i], index, res, settings))
    /\ ClassifyFrame

\* The label call of step 4 answers.
Label4Return ==
  \E i \in DOMAIN drains, res \in LabelResponses :
    /\ Quiescent
    /\ drains[i].pc = "label4"
    /\ Continue(drains, i, afterLabel4(drains[i], index, res, NewNodeId))
    /\ ClassifyFrame

\* The full-text embedding answers.
FullEmbedReturn ==
  \E i \in DOMAIN drains, res \in EmbedResponses :
    /\ Quiescent
    /\ drains[i].pc = "fullEmbed"
    /\ Continue(drains, i, afterFullEmbed(drains[i], index, res, settings))
    /\ ClassifyFrame

\* The label call of step 5 answers.
Label5Return ==
  \E i \in DOMAIN drains, res \in LabelResponses :
    /\ Quiescent
    /\ drains[i].pc = "label5"
    /\ Continue(drains, i, afterLabel5(drains[i], index, res, NewNodeId))
    /\ ClassifyFrame

\* The label call of step 6 answers.
Label6Return ==
  \E i \in DOMAIN drains, res \in LabelResponses :
    /\ Quiescent
    /\ drains[i].pc = "label6"
    /\ Continue(drains, i, afterLabel6(drains[i], index, res, NewNodeId))
    /\ ClassifyFrame

\* saveConversation answers: the snapshot is stored and the loop goes on,
\* or the call throws into the catch block.
SaveReturn ==
  \E i \in DOMAIN drains, res \in SaveResponses :
    /\ Quiescent
    /\ drains[i].pc = "save"
    /\ IF res = "ok"
       THEN /\ stored' = drains[i].saving
            /\ index' = index
            /\ drains' = [drains EXCEPT ![i] =
                            [@ EXCEPT !.pc = "loop", !.outcome = "saved",
                                      !.saving = <<>>]]
       ELSE /\ stored' = stored
            /\ index' = [index EXCEPT !.prompts = CatchPop(@)]
            /\ drains' = [drains EXCEPT ![i] =
                            [@ EXCEPT !.pc = "loop", !.outcome = "saveFailed",
                                      !.saving = <<>>]]
    /\ UNCHANGED << settings, processedHashes, processingQueue, isProcessing,
                    initEmbeddings, dom, mainPc, debounceTimer, clock, scans,
                    reloads, rewrites, probe, options, results, commitCount, failedMsgs >>

\* An embedding request of initializeEmbeddings answers: the vector is set
\* when ok, the loop goes on; a rejected request ends the function.
InitEmbedReturn ==
  \E res \in EmbedResponses :
    /\ Quiescent
    /\ initEmbeddings.pc = "await"
    /\ LET id == initEmbeddings.needsEmbed[initEmbeddings.pos]
       IN  index' = IF res.kind = "ok"
                    THEN [index EXCEPT !.embeddings = EmbSet(@, id, res.embedding)]
                    ELSE index
    /\ initEmbeddings' =
         IF res.kind = "reject" \/ initEmbeddings.pos = Len(initEmbeddings.needsEmbed)
         THEN [pc |-> "done", needsEmbed |-> <<>>, pos |-> 0]
         ELSE [initEmbeddings EXCEPT !.pos = @ + 1]
    /\ UNCHANGED << settings, processedHashes, processingQueue, isProcessing,
                    drains, dom, mainPc, debounceTimer, stored, clock, scans,
                    reloads, rewrites, probe, options, results, commitCount, failedMsgs >>

\* The page is reloaded: main() runs again on the settings loadSettings()
\* now returns and on what storage holds.  A saveConversation request under
\* way has reached storage or has not.
Reload ==
  /\ Quiescent
  /\ mainPc \in { "noKey", "timer", "observing" }
  /\ reloads < MaxReloads
  /\ reloads + rewrites < MaxPageEvents
  /\ Len(dom) <= MaxReloadDom
  /\ reloads' = reloads + 1
  /\ \E snap \in { stored } \cup { drains[i].saving :
                                    i \in { j \in DOMAIN drains : drains[j].pc = "save" } } :
       /\ stored' = snap
       /\ settings' \in SettingsChoices
       /\ index' = Main(settings', snap).index
       /\ mainPc' = Main(settings', snap).mainPc
       /\ initEmbeddings' = Main(settings', snap).initEmbeddings
       /\ processedHashes' = Main(settings', snap).processedHashes
  /\ processingQueue' = <<>>
  /\ isProcessing' = FALSE
  /\ drains' = <<>>
  /\ debounceTimer' = FALSE
  /\ commitCount' = EmptyMap
  /\ failedMsgs' = {}
  /\ UNCHANGED << dom, clock, scans, rewrites, probe, options, results >>

Next ==
  \/ AddMessage
  \/ Rewrite
  \/ Mutate
  \/ InitialParse
  \/ ObserverScan
  \/ DrainLoop
  \/ EmbedReturn
  \/ Label4Return
  \/ FullEmbedReturn
  \/ Label5Return
  \/ Label6Return
  \/ SaveReturn
  \/ InitEmbedReturn
  \/ Reload

Spec == Init /\ [][Next]_vars

\* ------------------------------------------- the engine on its own

\* A fresh index and a caller that calls classifyPrompt directly, one call
\* after the other.
InitEngine ==
  /\ settings \in EngineSettings
  /\ index = createIndex
  /\ mainPc = "engine"
  /\ initEmbeddings = [pc |-> "done", needsEmbed |-> <<>>, pos |-> 0]
  /\ processedHashes = {}
  /\ processingQueue = <<>>
  /\ isProcessing = FALSE
  /\ drains = <<>>
  /\ dom = <<>>
  /\ debounceTimer = FALSE
  /\ stored = <<>>
  /\ clock = 0
  /\ scans = 0
  /\ reloads = 0
  /\ rewrites = 0
  /\ probe = NoProbe
  /\ options = NoOptions
  /\ results = <<>>
  /\ commitCount = EmptyMap
  /\ failedMsgs = {}

\* classifyPrompt(index, prompt, settings), up to its first await or its
\* return.
CallClassify ==
  \E prompt \in EngineInputs :
    /\ mainPc = "engine"
    /\ drains = <<>>
    /\ Len(results) < MaxCalls
    /\ Continue(<< [NewActivation("direct") EXCEPT !.msg = prompt] >>, 1,
                classifyPrompt([NewActivation("direct") EXCEPT !.msg = prompt],
                               index))
    /\ ClassifyFrame

NextEngine ==
  \/ CallClassify
  \/ EmbedReturn
  \/ Label4Return
  \/ FullEmbedReturn
  \/ Label5Return
  \/ Label6Return

SpecEngine == InitEngine /\ [][NextEngine]_vars

\* ------------------------------------------- bestMatch on its own

\* The variables of the page and the engine.
pageVars == << settings, index, processedHashes, processingQueue, isProcessing,
               drains, initEmbeddings, dom, mainPc, debounceTimer, stored, clock,
               scans, reloads, rewrites, results, commitCount, failedMsgs >>

\* No page and no engine call: the harness specifications leave these
\* variables alone.
Idle ==
  /\ settings = [geminiApiKey |-> TRUE, thresholdHigh |-> DefaultThresholdHigh,
                 thresholdLow |-> DefaultThresholdLow]
  /\ index = createIndex
  /\ mainPc = "idle"
  /\ initEmbeddings = [pc |-> "done", needsEmbed |-> <<>>, pos |-> 0]
  /\ processedHashes = {}
  /\ processingQueue = <<>>
  /\ isProcessing = FALSE
  /\ drains = <<>>
  /\ dom = <<>>
  /\ debounceTimer = FALSE
  /\ stored = <<>>
  /\ clock = 0
  /\ scans = 0
  /\ reloads = 0
  /\ rewrites = 0
  /\ results = <<>>
  /\ commitCount = EmptyMap
  /\ failedMsgs = {}

\* The vectors of the candidates: none, of another length, parallel, at
\* 0.6, opposite.
ProbeVectors == { <<>>, <<5>>, <<5, 0>>, <<3, 4>>, <<-5, 0>> }

\* The query vectors.
ProbeQueries == { <<>>, <<5>>, <<5, 0>>, <<3, 4>> }

\* Thresholds within the ranges of the options page's sliders.
ProbeThresholds == { 0, 50, 60, 80, 100 }

ProbeIds == << "a", "b", "c", "d" >>

\* The candidate lists of up to MaxCandidates entries.
CandidateLists ==
  { [i \in 1..Len(vs) |-> [id |-> ProbeIds[i], embedding |-> vs[i]]] :
      vs \in UNION { [1..n -> ProbeVectors] : n \in 0..MaxCandidates } }

\* A query and a candidate list, before any call.
InitMatch ==
  /\ Idle
  /\ options = NoOptions
  /\ probe \in { [op |-> "bestMatch", queryEmbedding |-> q, candidates |-> c,
                   calls |-> <<>>] :
                   q \in ProbeQueries, c \in CandidateLists }

\* bestMatch(queryEmbedding, candidates, threshold); the threshold and what
\* the call returned are recorded.
CallBestMatch ==
  /\ probe.op = "bestMatch"
  /\ Len(probe.calls) < MaxProbeCalls
  /\ \E threshold \in ProbeThresholds :
       probe' = [probe EXCEPT !.calls =
                   Append(@, [threshold |-> threshold,
                              hit |-> bestMatch(probe.queryEmbedding,
                                                probe.candidates, threshold)])]
  /\ UNCHANGED << options, pageVars >>

NextMatch == CallBestMatch

SpecMatch == InitMatch /\ [][NextMatch]_vars

\* ------------------------------- the store's operations on their own

\* A node identifier that is in no store.
MissingId == "node_0"

\* The variables a store operation called on its own leaves alone.
treeFrame == << settings, processedHashes, processingQueue, isProcessing, drains,
                initEmbeddings, dom, mainPc, debounceTimer, stored, scans, reloads,
                rewrites, results, commitCount, failedMsgs, options >>

\* createIndex(), before any call.
InitTree ==
  /\ Idle
  /\ options = NoOptions
  /\ probe = [op |-> "tree", call |-> "none", parentId |-> "", nodeId |-> "",
              embedding |-> Undefined, promptIndex |-> -1, present |-> FALSE]

\* spawnNode(index, parentId, label, rank, embedding) with a parent of the
\* store or a missing one, with or without a vector.
CallSpawnNode ==
  /\ probe.op = "tree"
  /\ clock < MaxSpawns
  /\ \E parentId \in DOMAIN index.nodes \cup { MissingId },
        rank \in { 1, 2 },
        embedding \in { Undefined, Given(<<5, 0>>) } :
       /\ index' = spawnNode(index, parentId, <<76>>, rank, embedding, NewNodeId)
       /\ probe' = [probe EXCEPT !.call = "spawnNode", !.parentId = parentId,
                                 !.nodeId = NewNodeId, !.embedding = embedding,
                                 !.promptIndex = -1, !.present = FALSE]
  /\ clock' = clock + 1
  /\ UNCHANGED treeFrame

\* insertPromptIntoNode(index, nodeId, promptIndex) on a node of the store
\* or a missing one.
CallInsertPrompt ==
  /\ probe.op = "tree"
  /\ \E nodeId \in DOMAIN index.nodes \cup { MissingId },
        promptIndex \in 0..(MaxPromptIndex - 1) :
       /\ index' = insertPromptIntoNode(index, nodeId, promptIndex)
       /\ probe' = [probe EXCEPT
                      !.call = "insertPromptIntoNode", !.parentId = "",
                      !.nodeId = nodeId, !.embedding = Undefined,
                      !.promptIndex = promptIndex,
                      !.present = /\ HasNode(index, nodeId)
                                  /\ SeqHas(index.nodes[nodeId].promptIndices,
                                            promptIndex)]
  /\ UNCHANGED << clock, treeFrame >>

\* updatePromptCounts(index); present records that the call before it was
\* updatePromptCounts too.
CallUpdatePromptCounts ==
  /\ probe.op = "tree"
  /\ index' = updatePromptCounts(index)
  /\ probe' = [probe EXCEPT !.call = "updatePromptCounts", !.parentId = "",
                            !.nodeId = "", !.embedding = Undefined,
                            !.promptIndex = -1,
                            !.present = (probe.call = "updatePromptCounts")]
  /\ UNCHANGED << clock, treeFrame >>

NextTree ==
  \/ CallSpawnNode
  \/ CallInsertPrompt
  \/ CallUpdatePromptCounts

SpecTree == InitTree /\ [][NextTree]_vars

\* ----------------------------------- spawnNode's identifiers as generated

\* Math.random().toString(36).slice(2, 7): two of its outcomes.
RandomSuffixes == { "k3f9a", "q0zt7" }

\* `node_${Date.now()}_${Math.random().toString(36).slice(2, 7)}`
GeneratedId(now, random) == "node_" \o ToString(now) \o "_" \o random

\* createIndex(), before any spawnNode call; now is what Date.now() returns.
InitIds ==
  /\ Idle
  /\ options = NoOptions
  /\ probe = [op |-> "ids", now |-> 0, calls |-> 0, nodeId |-> "",
              parentId |-> "", rank |-> 0]

\* A millisecond passes.
Tick ==
  /\ probe.op = "ids"
  /\ probe.now < MaxNow
  /\ probe' = [probe EXCEPT !.now = @ + 1]
  /\ UNCHANGED << index, clock, treeFrame >>

\* spawnNode(index, parentId, label, rank, embedding) with the identifier
\* its first line generates.
CallSpawnGenerated ==
  /\ probe.op = "ids"
  /\ probe.calls < MaxSpawns + 1
  /\ \E parentId \in DOMAIN index.nodes, rank \in { 1, 2 },
        random \in RandomSuffixes :
       LET id == GeneratedId(probe.now, random)
       IN  /\ index' = spawnNode(index, parentId, <<76>>, rank,
                                 Given(<<5, 0>>), id)
           /\ probe' = [probe EXCEPT !.calls = @ + 1, !.nodeId = id,
                                     !.parentId = parentId, !.rank = rank]
  /\ UNCHANGED << clock, treeFrame >>

NextIds ==
  \/ Tick
  \/ CallSpawnGenerated

SpecIds == InitIds /\ [][NextIds]_vars

\* ------------------------------------------------ the options page

DEFAULT_SETTINGS ==
  [geminiApiKey |-> FALSE, thresholdHigh |-> DefaultThresholdHigh,
   thresholdLow |-> DefaultThresholdLow]

\* The values of a range input: min, min + step, ... up to max.
RangeValues(min, max, step) ==
  { v \in min..max : (v - min) % step = 0 }

\* <input type="range" min={0.5} max={1} step={0.05}>
HighSlider == RangeValues(50, 100, 5)

\* <input type="range" min={0} max={0.79} step={0.05}>
LowSlider == RangeValues(0, 79, 5)

\* loadSettings: the defaults overridden by what is stored.
loadSettings(storage) ==
  IF storage = <<>> THEN DEFAULT_SETTINGS ELSE storage[1]

\* The options page once its useEffect has loaded the settings, over an
\* empty storage.
InitOptions ==
  /\ Idle
  /\ probe = NoProbe
  /\ options = [op |-> "options", settings |-> loadSettings(<<>>),
                storage |-> <<>>]

\* onChange of the high slider: patch('thresholdHigh', Number(e.target.value))
PatchHigh ==
  /\ options.op = "options"
  /\ \E v \in HighSlider :
       options' = [options EXCEPT !.settings.thresholdHigh = v]
  /\ UNCHANGED << probe, pageVars >>

\* onChange of the low slider: patch('thresholdLow', Number(e.target.value))
PatchLow ==
  /\ options.op = "options"
  /\ \E v \in LowSlider :
       options' = [options EXCEPT !.settings.thresholdLow = v]
  /\ UNCHANGED << probe, pageVars >>

\* handleSave: saveSettings(settings) stores the stored settings overridden
\* by every field of the form.
HandleSave ==
  /\ options.op = "options"
  /\ options' = [options EXCEPT !.storage = << options.settings >>]
  /\ UNCHANGED << probe, pageVars >>

\* The options page is opened again: the form shows loadSettings().
OpenOptions ==
  /\ options.op = "options"
  /\ options' = [options EXCEPT !.settings = loadSettings(options.storage)]
  /\ UNCHANGED << probe, pageVars >>

NextOptions ==
  \/ PatchHigh
  \/ PatchLow
  \/ HandleSave
  \/ OpenOptions

SpecOptions == InitOptions /\ [][NextOptions]_vars

\* ------------------------------- background.ts: the proxy on its own

\* The requests the proxy is sent, one after the other, at most.
MaxProxyRequests == 3

\* The contexts of the label requests: "Ha" and " H".
ProxyContexts == { <<72, 97>>, <<32, 72>> }

\* The settings of a page that classifies.
ProxySettingsValue ==
  [geminiApiKey |-> TRUE, thresholdHigh |-> DefaultThresholdHigh,
   thresholdLow |-> DefaultThresholdLow]

\* The store of an earlier page load: passage 0 under a header spawned for
\* it, passage 1 under a subheader spawned for it.
StoreBeforeReload ==
  LET p0 == [index |-> 0, fullText |-> TextAa, firstSentence |-> <<72, 97>>,
             hash |-> hashPrompt(TextAa)]
      p1 == [index |-> 1, fullText |-> TextCc, firstSentence |-> <<72, 99>>,
             hash |-> hashPrompt(TextCc)]
      s0 == [createIndex EXCEPT !.prompts = <<p0>>]
      s1 == commit(spawnNode(s0, RootId, <<76>>, 1, Given(<<5, 0>>), "node_1"),
                   p0.hash, "node_1", 0, TRUE, 0).index
      s2 == [s1 EXCEPT !.prompts = Append(@, p1)]
  IN  commit(spawnNode(s2, "node_1", <<77>>, 2, Given(<<3, 4>>), "node_2"),
             p1.hash, "node_2", 60, TRUE, 1).index

\* The store main() restores from the snapshot of StoreBeforeReload: its
\* nodes have no vector yet.
RestoredIndex == Main(ProxySettingsValue, <<Snapshot(StoreBeforeReload)>>).index

\* The responses of the proxy.
OkPlain == [kind |-> "ok", embedding |-> <<>>, label |-> <<>>]
OkEmbedding(v) == [kind |-> "ok", embedding |-> v, label |-> <<>>]
OkLabel(l) == [kind |-> "ok", embedding |-> <<>>, label |-> l]
Failure == [kind |-> "error", embedding |-> <<>>, label |-> <<>>]

\* What res.json() resolves to for an embedding: data?.embedding?.values is
\* missing, an empty array or a vector.
EmbedBodies ==
  { [values |-> Undefined], [values |-> Given(<<>>)] }
    \cup { [values |-> Given(v)] : v \in Vectors }

\* What res.json() resolves to for a label: the candidate's text is missing,
\* is no JSON, or is JSON with no label, a blank label or a label (with and
\* without white space around it).
LabelBodies ==
  { [text |-> Undefined],
    [text |-> Given([json |-> FALSE, label |-> Undefined])],
    [text |-> Given([json |-> TRUE, label |-> Undefined])],
    [text |-> Given([json |-> TRUE, label |-> Given(<<32>>)])],
    [text |-> Given([json |-> TRUE, label |-> Given(<<76>>)])],
    [text |-> Given([json |-> TRUE, label |-> Given(<<32, 76, 32>>)])] }

\* A faulty variant of callEmbeddingBody: the empty array is not looked for.
callEmbeddingUnchecked(data) ==
  LET embedding == IF data.values = Undefined THEN <<>> ELSE data.values[1]
  IN  OkEmbedding(embedding)

\* callEmbedding once res.json() has resolved to data.
callEmbeddingBody(data) ==
  LET embedding == IF data.values = Undefined THEN <<>> ELSE data.values[1]
  IN  IF Len(embedding) = 0 THEN Failure ELSE OkEmbedding(embedding)

\* callLabel once res.json() has resolved to data: rawText defaults to
\* '{}', the label to the cut context; a JSON.parse that throws, or a label
\* that is no string or blank, leaves the default.
callLabelBody(context, data) ==
  LET rawText == IF data.text = Undefined
                 THEN [json |-> TRUE, label |-> Undefined]
                 ELSE data.text[1]
      fallback == FallbackLabel(context)
  IN  IF rawText.json /\ rawText.label # Undefined /\ Trim(rawText.label[1]) # <<>>
      THEN OkLabel(Trim(rawText.label[1]))
      ELSE OkLabel(fallback)

\* The node initializeEmbeddings asks a vector for.
NodeToEmbed == initEmbeddings.needsEmbed[initEmbeddings.pos]

\* The messages the proxy can be sent now: an embedding request of
\* initializeEmbeddings, a label request, OPEN_OPTIONS, or a message of no
\* known type.
ProxyMessages ==
  { [type |-> "OPEN_OPTIONS", text |-> <<>>], [type |-> "NONE", text |-> <<>>] }
    \cup { [type |-> "GEMINI_LABEL", text |-> c] : c \in ProxyContexts }
    \cup (IF initEmbeddings.pc = "await"
          THEN { [type |-> "GEMINI_EMBED", text |-> index.nodes[NodeToEmbed].label] }
          ELSE {})

\* The variables the proxy and its caller leave alone.
proxyFrame == << settings, processedHashes, processingQueue, isProcessing, drains,
                 dom, mainPc, debounceTimer, stored, clock, scans, reloads,
                 rewrites, results, commitCount, failedMsgs, options >>

\* The page of a restored conversation has started initializeEmbeddings; the
\* proxy has received nothing.
InitProxy ==
  /\ settings = ProxySettingsValue
  /\ index = RestoredIndex
  /\ mainPc = "idle"
  /\ initEmbeddings = initializeEmbeddings(RestoredIndex, settings)
  /\ processedHashes = {}
  /\ processingQueue = <<>>
  /\ isProcessing = FALSE
  /\ drains = <<>>
  /\ dom = <<>>
  /\ debounceTimer = FALSE
  /\ stored = <<>>
  /\ clock = 0
  /\ scans = 0
  /\ reloads = 0
  /\ rewrites = 0
  /\ results = <<>>
  /\ commitCount = EmptyMap
  /\ failedMsgs = {}
  /\ options = NoOptions
  /\ probe = [op |-> "proxy", pc |-> "idle", msg |-> [type |-> "NONE", text |-> <<>>],
              fault |-> "none", responses |-> <<>>, answered |-> <<>>]

\* A step of the proxy that calls sendResponse(r), after fault.
Respond(r, fault) ==
  probe' = [probe EXCEPT !.pc = "sent", !.fault = fault,
                         !.responses = Append(@, r)]

\* A step of the proxy that goes on to its next await.
Await(pc) == probe' = [probe EXCEPT !.pc = pc]

\* The onMessage listener: OPEN_OPTIONS is answered at once, any other
\* message is handed to handleMessage, which awaits loadSettings().
ProxyReceive ==
  /\ probe.op = "proxy"
  /\ probe.pc = "idle"
  /\ Len(probe.answered) < MaxProxyRequests
  /\ \E msg \in ProxyMessages :
       probe' = [probe EXCEPT
                   !.msg = msg, !.fault = "none",
                   !.pc = IF msg.type = "OPEN_OPTIONS" THEN "sent" ELSE "settings",
                   !.responses = IF msg.type = "OPEN_OPTIONS" THEN <<OkPlain>>
                                 ELSE <<>>]
  /\ UNCHANGED << index, initEmbeddings, proxyFrame >>

\* handleMessage once loadSettings() has settled: a rejection reaches the
\* listener's catch; no key and an unknown type are answered {ok: false};
\* callEmbedding and callLabel start their fetch.
ProxySettings ==
  /\ probe.op = "proxy"
  /\ probe.pc = "settings"
  /\ \E outcome \in { "key", "noKey", "reject" } :
       IF outcome = "reject" THEN Respond(Failure, "exception")
       ELSE IF outcome = "noKey" THEN Respond(Failure, "noKey")
       ELSE IF probe.msg.type \in { "GEMINI_EMBED", "GEMINI_LABEL" } THEN Await("fetch")
       ELSE Respond(Failure, "unknownType")
  /\ UNCHANGED << index, initEmbeddings, proxyFrame >>

\* callEmbedding and callLabel once fetch has settled: a fetch error is
\* answered {ok: false}; a status outside 2xx awaits res.text(); otherwise
\* res.json() is awaited.
ProxyFetch ==
  /\ probe.op = "proxy"
  /\ probe.pc = "fetch"
  /\ \E outcome \in { "fetchError", "status500", "status200" } :
       IF outcome = "fetchError" THEN Respond(Failure, "fetchError")
       ELSE IF outcome = "status500" THEN Await("text")
       ELSE Await("json")
  /\ UNCHANGED << index, initEmbeddings, proxyFrame >>

\* res.text().catch(() => '') has settled, either way: {ok: false}.
ProxyText ==
  /\ probe.op = "proxy"
  /\ probe.pc = "text"
  /\ \E outcome \in { "body", "reject" } : Respond(Failure, "status")
  /\ UNCHANGED << index, initEmbeddings, proxyFrame >>

\* res.json() has settled: a rejection reaches the listener's catch; a body
\* is looked at by callEmbedding or callLabel.
ProxyJson ==
  /\ probe.op = "proxy"
  /\ probe.pc = "json"
  /\ \/ Respond(Failure, "exception")
     \/ /\ probe.msg.type = "GEMINI_EMBED"
        /\ \E data \in EmbedBodies :
             Respond(callEmbeddingBody(data),
                     IF data.values \in { Undefined, Given(<<>>) }
                     THEN "emptyValues" ELSE "none")
     \/ /\ probe.msg.type = "GEMINI_LABEL"
        /\ \E data \in LabelBodies :
             Respond(callLabelBody(probe.msg.text, data), "none")
  /\ UNCHANGED << index, initEmbeddings, proxyFrame >>

\* The sender gets the response: initializeEmbeddings sets the node's vector
\* when the response is ok and goes on to its next node; fetchLabel takes
\* the label or its fallback.
ProxyDeliver ==
  /\ probe.op = "proxy"
  /\ probe.pc = "sent"
  /\ LET res == probe.responses[1]
     IN  /\ probe' = [probe EXCEPT
                        !.pc = "idle", !.responses = <<>>,
                        !.answered =
                          Append(@, [msg |-> probe.msg, fault |-> probe.fault,
                                     responses |-> probe.responses,
                                     label |-> IF probe.msg.type = "GEMINI_LABEL"
                                               THEN fetchLabel(probe.msg.text, res)
                                               ELSE <<>>])]
         /\ IF probe.msg.type = "GEMINI_EMBED"
            THEN /\ index' = IF res.kind = "ok"
                             THEN [index EXCEPT !.embeddings =
                                     EmbSet(@, NodeToEmbed, res.embedding)]
                             ELSE index
                 /\ initEmbeddings' =
                      IF initEmbeddings.pos = Len(initEmbeddings.needsEmbed)
                      THEN [pc |-> "done", needsEmbed |-> <<>>, pos |-> 0]
                      ELSE [initEmbeddings EXCEPT !.pos = @ + 1]
            ELSE UNCHANGED << index, initEmbeddings >>
  /\ UNCHANGED proxyFrame

NextProxy ==
  \/ ProxyReceive
  \/ ProxySettings
  \/ ProxyFetch
  \/ ProxyText
  \/ ProxyJson
  \/ ProxyDeliver

SpecProxy == InitProxy /\ [][NextProxy]_vars

\* ============================================================ properties

\* The sum of promptCount over the nodes of a children list.
RECURSIVE ChildCountSum(_, _)
ChildCountSum(nodes, children) ==
  IF children = <<>> THEN 0
  ELSE (IF Head(children) \in DOMAIN nodes THEN nodes[Head(children)].promptCount
        ELSE 0) + ChildCountSum(nodes, Tail(children))

InFlight(ds) == { i \in DOMAIN ds : ds[i].pc \in ClassifyPcs }

\* C2: at most one classifyPrompt call is in flight at any time, whatever
\* scans invoke drainQueue while a call is suspended on a capability call.
C2_OneInFlight == Cardinality(InFlight(drains)) <= 1

\* C2's case: an observer scan has invoked drainQueue while a classifyPrompt
\* call was suspended: the message of that call is in the queue again.
C2_Witness ==
  /\ scans >= 1
  /\ \E i \in InFlight(drains) :
       \E k \in DOMAIN processingQueue : processingQueue[k] = drains[i].msg

\* A step leaves the tree, the cache and the prompt records alone while a
\* classifyPrompt call stays suspended across it; the vectors change only by
\* initializeEmbeddings.
C3_Isolation ==
  \A i \in InFlight(drains) :
    (i \in InFlight(drains') /\ drains'[i].msg = drains[i].msg)
      => /\ Snapshot(index') = Snapshot(index)
         /\ \/ index'.embeddings = index.embeddings
            \/ initEmbeddings' # initEmbeddings

\* A step changes the queue only by appending at its tail, or by taking its
\* head while no classifyPrompt call is in flight, the head being the
\* message classified next.
C3_Fifo ==
  \/ processingQueue' = processingQueue
  \/ reloads' # reloads
  \/ /\ Len(processingQueue') > Len(processingQueue)
     /\ SubSeq(processingQueue', 1, Len(processingQueue)) = processingQueue
  \/ /\ processingQueue # <<>>
     /\ processingQueue' = Tail(processingQueue)
     /\ InFlight(drains) = {}
     /\ \A i \in InFlight(drains') : drains'[i].msg = Head(processingQueue)

C4_CommitOnce == \A h \in DOMAIN commitCount : commitCount[h] <= 1

\* C4's case: a passage has been committed while a copy of it, appended by a
\* later scan, is still in the queue.
C4_Witness ==
  \E k \in DOMAIN processingQueue :
    /\ hashPrompt(processingQueue[k].fullText) \in DOMAIN commitCount
    /\ \E r \in DOMAIN index.prompts :
         /\ index.prompts[r].fullText = processingQueue[k].fullText
         /\ index.prompts[r].index = processingQueue[k].index

\* C5: of two classifyPrompt calls on the same full text, the second returns
\* the node identifier of the first with isNewNode false, after no embedding
\* and no label call.
C5_Idempotence ==
  \A i, j \in DOMAIN results :
    (/\ i < j
     /\ results[i].returned
     /\ results[i].input.fullText = results[j].input.fullText)
      => /\ results[j].returned
         /\ results[j].result.nodeId = results[i].result.nodeId
         /\ ~results[j].result.isNewNode
         /\ results[j].embedCalls = 0
         /\ results[j].labelCalls = 0

\* C5's case: a text has been classified, another call has spawned a node,
\* and the text has been classified again.
C5_Witness ==
  /\ mainPc = "engine"
  /\ Len(results) = 3
  /\ results[1].returned /\ results[1].result.isNewNode
  /\ results[2].returned /\ results[2].result.isNewNode
  /\ results[3].returned
  /\ results[3].input.fullText = results[1].input.fullText
  /\ results[2].input.fullText # results[1].input.fullText

\* C6: the step in which a sentence-embedding call fails leaves nodes,
\* children, promptIndices, promptCounts, vectors and cache as they were and
\* the prompt records as they were before the passage was dequeued.
C6_EmbedFailureRollsBack ==
  [][\A i \in DOMAIN drains :
       (/\ drains[i].pc = "embed"
        /\ drains[i].caller = "drain"
        /\ i \in DOMAIN drains'
        /\ drains'[i].pc = "loop")
         => /\ drains'[i].outcome = "embedFailed"
            /\ index'.nodes = index.nodes
            /\ index'.nodeKeys = index.nodeKeys
            /\ index'.embeddings = index.embeddings
            /\ index'.cache = index.cache
            /\ Snapshot(index') = drains[i].before[1]
            /\ index.prompts = Append(index'.prompts, index.prompts[Len(index.prompts)])
    ]_vars

\* C6's case: the sentence embedding of a passage has failed after another
\* passage had been placed.
C6_Witness ==
  \E i \in DOMAIN drains :
    /\ drains[i].pc = "loop"
    /\ drains[i].outcome = "embedFailed"
    /\ index.prompts # <<>>
    /\ Cardinality(DOMAIN index.nodes) > 1

\* C7: the drain loop goes on after a failure: at its loop head, with a
\* passage of the pass failed and the queue not empty, it takes the next
\* passage; and the pass ends only on an empty queue.
C7_DrainGoesOn ==
  [][\A i \in DOMAIN drains :
       (drains[i].pc = "loop" /\ drains[i].failedInPass)
         => IF processingQueue # <<>>
            THEN /\ i \in DOMAIN drains'
                 /\ processingQueue' = Tail(processingQueue)
                 /\ drains'[i].msg = Head(processingQueue)
                 /\ isProcessing'
            ELSE /\ drains' = RemoveAt(drains, i)
                 /\ processingQueue' = <<>>
    ]_vars

\* C7's case: in a pass in which a passage has failed, a passage behind it
\* has been classified.
C7_Witness ==
  \E i \in DOMAIN drains :
    /\ drains[i].failedInPass
    /\ drains[i].pc = "save"
    /\ drains[i].msg \notin failedMsgs
    /\ failedMsgs # {}

\* Every embedding call the activation has made has answered ok, and it
\* waits for its label.
EmbeddingsSucceeded(a) ==
  \/ a.pc \in { "label4", "label5" }
  \/ a.pc = "label6" /\ a.embedCalls = 1

\* The passage of message msg is attached to a node of idx.
Attached(idx, msg) ==
  \E id \in DOMAIN idx.nodes : SeqHas(idx.nodes[id].promptIndices, msg.index)

\* C8: a passage whose classification has failed is in neither the cache nor
\* the processed set, and when a later scan offers it again and its
\* embedding calls succeed, the classification ends with the passage
\* attached to a node.  (The message has failed in an earlier pass, so the
\* copy being classified was appended by a scan after the failure.)
C8_RetryAttaches ==
  [][\A i \in DOMAIN drains :
       (/\ drains[i].caller = "drain"
        /\ drains[i].msg \in failedMsgs
        /\ ~drains[i].failedInPass
        /\ EmbeddingsSucceeded(drains[i])
        /\ i \in DOMAIN drains'
        /\ drains'[i].pc \notin ClassifyPcs)
         => /\ drains[i].hash \notin processedHashes
            /\ drains[i].hash \notin DOMAIN index.cache
            /\ drains'[i].pc = "save"
            /\ Attached(index', drains[i].msg)
    ]_vars

\* --------------------------------------------- the page under fairness

\* A step of a drainQueue activation: its loop head, or the answer of the
\* capability or persistence call it is suspended on.
DrainStep ==
  \/ DrainLoop
  \/ EmbedReturn
  \/ Label4Return
  \/ FullEmbedReturn
  \/ Label5Return
  \/ Label6Return
  \/ SaveReturn

\* ENABLED <<DrainStep>>_vars, from the guards of DrainStep's disjuncts: an
\* activation is at its loop head, or the thread is between handlers and an
\* activation waits for an answer.
DrainStepEnabled ==
  \E i \in DOMAIN drains :
    \/ drains[i].pc = "loop"
    \/ Quiescent /\ drains[i].pc \in ClassifyPcs \cup { "save" }

\* <<DrainStep>>_vars by its effect: an activation has moved or the queue
\* has lost its head, in a step that is no scan and no reload.
DrainStepTaken ==
  /\ drains' # drains \/ Len(processingQueue') < Len(processingQueue)
  /\ scans' = scans
  /\ mainPc' = mainPc
  /\ reloads' = reloads

\* DrainStepTaken is <<DrainStep>>_vars on every step.
DrainStepTakenIsExact == [][DrainStepTaken <=> <<DrainStep>>_vars]_vars

\* DrainStepEnabled is ENABLED <<DrainStep>>_vars in every reachable state.
DrainStepEnabledIsExact == DrainStepEnabled <=> ENABLED <<DrainStep>>_vars

\* Every capability and persistence call eventually answers, and the thread
\* runs on from a loop head: weak fairness of DrainStep, WF_vars(DrainStep),
\* written out with DrainStepEnabled for ENABLED <<DrainStep>>_vars and
\* DrainStepTaken for <<DrainStep>>_vars.
DrainFairness == []<>(~DrainStepEnabled) \/ []<><<DrainStepTaken>>_vars

FairSpec == Spec /\ DrainFairness

\* A scan that runs while a classifyPrompt call is suspended appends the
\* messages not yet processed to the tail of the queue, starts no activation
\* and touches neither the suspended call nor the store.
C9_QueuedNotInline ==
  (InFlight(drains) # {} /\ scans' # scans)
    => /\ processingQueue' =
            processingQueue
              \o SelectSeq(dom, LAMBDA m : hashPrompt(m.fullText) \notin processedHashes)
       /\ drains' = drains
       /\ index' = index
       /\ isProcessing'

\* Without a drainQueue activation the queue is empty and the flag is down.
C9_NoLostWakeup ==
  drains = <<>> => (processingQueue = <<>> /\ ~isProcessing)

\* C9: a passage arriving while a classification is suspended is appended to
\* the tail of the queue, not classified inline; and when every capability
\* and persistence call eventually answers, the queue is eventually empty
\* with isProcessing false.
C9_QueuedThenDrained ==
  /\ [][C9_QueuedNotInline]_vars
  /\ []C9_NoLostWakeup
  /\ (isProcessing \/ processingQueue # <<>>)
       ~> (processingQueue = <<>> /\ ~isProcessing /\ drains = <<>>)

\* C9's case: a message that arrived while a classifyPrompt call was
\* suspended has been appended by an observer scan and waits at the tail of
\* the queue.
C9_Witness ==
  /\ scans >= 1
  /\ \E i \in InFlight(drains) :
       /\ processingQueue # <<>>
       /\ processingQueue[Len(processingQueue)].index > drains[i].msg.index
       /\ processingQueue[Len(processingQueue)].index = Len(dom) - 1
       /\ processingQueue[Len(processingQueue)].fullText # drains[i].msg.fullText

\* C10: after a restore no classifyPrompt call is past its rank-1 scan while
\* a restored node still waits for its vector.
C10_EmbeddedBeforeClassified ==
  \A i \in DOMAIN drains :
    drains[i].pc \in (ClassifyPcs \ { "embed" }) => InitPending = {}

\* The nodes of idx that hold passage index n in their promptIndices.
Holders(idx, n) ==
  { id \in DOMAIN idx.nodes : SeqHas(idx.nodes[id].promptIndices, n) }

\* The passage indices attached anywhere in idx.
AttachedIndices(idx) ==
  UNION { { idx.nodes[id].promptIndices[k] : k \in 1..Len(idx.nodes[id].promptIndices) } :
            id \in DOMAIN idx.nodes }

\* C11: no passage index is in the promptIndices of more than one node.
C11_OneNodePerIndex ==
  \A n \in AttachedIndices(index) : Cardinality(Holders(index, n)) <= 1

\* C12: every cache entry's nodeId is the identifier of a node of the store.
C12_CacheRefersToNodes ==
  \A h \in DOMAIN index.cache : HasNode(index, index.cache[h].nodeId)

\* C12's case: after a reload the cache holds an entry restored from storage
\* and an entry committed since, for two different nodes.
C12_Witness ==
  /\ reloads = 1
  /\ \E g, h \in DOMAIN index.cache :
       /\ g \notin DOMAIN commitCount
       /\ h \in DOMAIN commitCount
       /\ index.cache[g].nodeId # index.cache[h].nodeId

\* The places (node, position) at which id stands in a children list of idx.
ChildPlaces(idx, id) ==
  { << parent, k >> \in (DOMAIN idx.nodes) \X (1..Cardinality(DOMAIN idx.nodes)) :
      /\ k <= Len(idx.nodes[parent].children)
      /\ idx.nodes[parent].children[k] = id }

\* Every entry of every children list stands within the first n places.
ChildrenWithin(idx, n) ==
  \A parent \in DOMAIN idx.nodes : Len(idx.nodes[parent].children) <= n

C15_SameTextAttached ==
  [][\A i \in DOMAIN drains :
       (/\ drains[i].pc = "loop"
        /\ processingQueue # <<>>
        /\ processingQueue' = Tail(processingQueue)
        /\ hashPrompt(Head(processingQueue).fullText) \in DOMAIN index.cache
        /\ ~Attached(index, Head(processingQueue)))
         => LET cached == index.cache[hashPrompt(Head(processingQueue).fullText)]
            IN  /\ SeqHas(index'.nodes[cached.nodeId].promptIndices,
                          Head(processingQueue).index)
                /\ index'.nodes = updatePromptCounts(index').nodes
                /\ InFlight(drains') = {}
    ]_vars

\* Every entry of cache a is an entry of cache b.
CacheKept(a, b) == \A h \in DOMAIN a : h \in DOMAIN b /\ b[h] = a[h]

\* The cache storage holds.
StoredCache(st) == IF st = <<>> THEN EmptyMap ELSE st[1].cache

\* C16: an entry of the cache is never changed and never removed.
C16_CacheWriteOnce == [][CacheKept(index.cache, index'.cache)]_vars

\* C16, amended: within a page load an entry of the cache is never changed
\* and never removed; an entry of the cache storage holds is never changed
\* and never removed, reloads included; and a reload restores the cache
\* storage holds.
C16_CacheWriteOncePerLoad ==
  [][/\ reloads' = reloads => CacheKept(index.cache, index'.cache)
     /\ CacheKept(StoredCache(stored), StoredCache(stored'))
     /\ reloads' # reloads => index'.cache = StoredCache(stored')
    ]_vars

\* C16's case: after a reload, storage holds an entry it held before the
\* reload and an entry committed since.
C16_Witness ==
  /\ reloads = 1
  /\ \E g, h \in DOMAIN StoredCache(stored) :
       /\ g \notin DOMAIN commitCount
       /\ h \in DOMAIN commitCount

\* The awaits of classifyPrompt that are label calls.
LabelPcs == { "label4", "label5", "label6" }

\* Sequence a is the start of sequence b.
IsPrefix(a, b) == Len(a) <= Len(b) /\ SubSeq(b, 1, Len(a)) = a

\* C17: whatever answer a label call gets, the step that takes it ends the
\* classifyPrompt call with a return: a node is spawned, the passage is
\* attached to it, and its label is the service's or a prefix of the
\* sentence of at most 40 characters.
C17_LabelFailureNotFatal ==
  [][\A i \in DOMAIN drains :
       (/\ drains[i].caller = "direct"
        /\ drains[i].pc \in LabelPcs
        /\ drains' # drains)
         => LET r == results'[Len(results')]
            IN  /\ r.returned
                /\ r.result.isNewNode
                /\ ~HasNode(index, r.result.nodeId)
                /\ HasNode(index', r.result.nodeId)
                /\ SeqHas(index'.nodes[r.result.nodeId].promptIndices,
                          drains[i].msg.index)
                /\ \/ index'.nodes[r.result.nodeId].label \in ServiceLabels
                   \/ /\ IsPrefix(index'.nodes[r.result.nodeId].label,
                                  drains[i].msg.headingText)
                      /\ Len(index'.nodes[r.result.nodeId].label) <= LabelCut
    ]_vars

\* The store holds no node but root.
OnlyRoot(idx) == DOMAIN idx.nodes = { RootId }

\* A classifyPrompt call against a store with only root has made one
\* embedding call, for the sentence, and waits for it or for the label of
\* step 6.
C18_NoEscalation ==
  \A i \in DOMAIN drains :
    (OnlyRoot(index) /\ drains[i].pc \in ClassifyPcs)
      => /\ drains[i].pc \in { "embed", "label6" }
         /\ drains[i].embedCalls = 1
         /\ drains[i].labelCalls = IF drains[i].pc = "label6" THEN 1 ELSE 0

\* A classifyPrompt call against a store with only root that returns leaves
\* one new rank-1 node under root, with the sentence vector and the passage,
\* and returns it with confidence 0 and isNewNode true.
C18_NewHeader ==
  \A i \in DOMAIN drains :
    (/\ OnlyRoot(index)
     /\ drains[i].caller = "direct"
     /\ drains[i].pc \in ClassifyPcs
     /\ Len(results') = Len(results) + 1
     /\ results'[Len(results')].returned)
      => LET r  == results'[Len(results')]
             id == r.result.nodeId
         IN  /\ r.embedCalls = 1
             /\ r.result = [nodeId |-> id, confidence |-> 0, isNewNode |-> TRUE]
             /\ id # RootId
             /\ DOMAIN index'.nodes = { RootId, id }
             /\ index'.nodes[RootId].children = << id >>
             /\ index'.nodes[RootId].promptIndices = <<>>
             /\ index'.nodes[id].rank = 1
             /\ index'.nodes[id].children = <<>>
             /\ index'.nodes[id].promptIndices = << drains[i].msg.index >>
             /\ index'.embeddings =
                  << [id |-> id, embedding |-> drains[i].sentenceEmbedding] >>
             /\ index'.cache[drains[i].hash] = [nodeId |-> id, confidence |-> 0]

\* C18 (scenario A): classifying a passage against a store with only root
\* makes exactly one embedding call, skips the full-text escalation, and
\* ends with one new rank-1 node under root holding the passage, returned
\* with confidence 0 and isNewNode true.
C18_ScenarioA == []C18_NoEscalation /\ [][C18_NewHeader]_vars

\* C18's case: after a call that failed, a call against the store with only
\* root has returned its new node.
C18_Witness ==
  /\ mainPc = "engine"
  /\ Len(results) = 2
  /\ ~results[1].returned
  /\ results[2].returned
  /\ results[2].result.isNewNode
  /\ Cardinality(DOMAIN index.nodes) = 2

\* The score of vector v against the vector of node id.
Score(idx, v, id) == cosineSimilarity(v, EmbGet(idx.embeddings, id))

\* The children of parent of the given rank whose vector v reaches
\* threshold thr.
Reaching(idx, parent, rank, v, thr) ==
  { id \in DOMAIN idx.nodes :
      /\ SeqHas(idx.nodes[parent].children, id)
      /\ idx.nodes[id].rank = rank
      /\ EmbHas(idx.embeddings, id)
      /\ Score(idx, v, id) >= thr }

\* A classifyPrompt call waits for the label of step 4 exactly when its
\* sentence vector reaches the high threshold on a rank-1 node, the node
\* kept being one of the highest score, and on no rank-2 child of that node;
\* it goes on to steps 5 and 6 only when the vector reaches it on no rank-1
\* node.
C19_Step4Miss ==
  \A i \in DOMAIN drains :
    LET a     == drains[i]
        hits1 == Reaching(index, RootId, 1, a.sentenceEmbedding, settings.thresholdHigh)
    IN  /\ a.pc = "label4"
          => /\ a.rank1Hit.id \in hits1
             /\ a.rank1Hit.score = Score(index, a.sentenceEmbedding, a.rank1Hit.id)
             /\ \A h \in hits1 :
                  Score(index, a.sentenceEmbedding, h) <= a.rank1Hit.score
             /\ Reaching(index, a.rank1Hit.id, 2, a.sentenceEmbedding,
                         settings.thresholdHigh) = {}
             /\ a.embedCalls = 1
        /\ a.pc \in { "fullEmbed", "label5", "label6" } => hits1 = {}

\* The step that takes the answer of step 4's label call and returns spawns
\* one rank-2 node under the rank-1 node matched, with the sentence vector
\* and the passage, and returns it with isNewNode true and the rank-1 score.
C19_NewSubheader ==
  \A i \in DOMAIN drains :
    (/\ drains[i].caller = "direct"
     /\ drains[i].pc = "label4"
     /\ Len(results') = Len(results) + 1
     /\ results'[Len(results')].returned)
      => LET a      == drains[i]
             r      == results'[Len(results')]
             id     == r.result.nodeId
             parent == a.rank1Hit.id
         IN  /\ r.result = [nodeId |-> id, confidence |-> a.rank1Hit.score,
                            isNewNode |-> TRUE]
             /\ r.result.confidence >= settings.thresholdHigh
             /\ ~HasNode(index, id)
             /\ DOMAIN index'.nodes = DOMAIN index.nodes \cup { id }
             /\ index'.nodes[parent].children =
                  Append(index.nodes[parent].children, id)
             /\ index'.nodes[id].rank = 2
             /\ index'.nodes[id].children = <<>>
             /\ index'.nodes[id].promptIndices = << a.msg.index >>
             /\ EmbGet(index'.embeddings, id) = a.sentenceEmbedding
             /\ index'.cache[a.hash] =
                  [nodeId |-> id, confidence |-> a.rank1Hit.score]

\* C19 (scenario B): when the sentence vector reaches thresholdHigh on a
\* rank-1 node and on no rank-2 child of it, a rank-2 node is spawned under
\* that node with the sentence vector, the passage is attached to it, and
\* the result has isNewNode true and the rank-1 score as confidence.
C19_ScenarioB == []C19_Step4Miss /\ [][C19_NewSubheader]_vars

\* C19's case: a call has returned a new rank-2 node after one embedding
\* call, and its parent already had another rank-2 child.
C19_Witness ==
  /\ mainPc = "engine"
  /\ \E k \in DOMAIN results :
       /\ results[k].returned
       /\ results[k].result.isNewNode
       /\ results[k].embedCalls = 1
       /\ index.nodes[results[k].result.nodeId].rank = 2
       /\ \E parent \in DOMAIN index.nodes :
            /\ Len(index.nodes[parent].children) = 2
            /\ index.nodes[parent].children[2] = results[k].result.nodeId

\* The highest-scoring members of a set of nodes against vector v.
Best(idx, v, ids) ==
  { id \in ids : \A other \in ids : Score(idx, v, other) <= Score(idx, v, id) }

\* Vector v reaches thresholdHigh on a rank-1 node, one of the highest score,
\* and then on rank-2 child id of it, one of the highest score among the
\* children.
Rank2Match(idx, v, id) ==
  \E h \in Best(idx, v, Reaching(idx, RootId, 1, v, settings.thresholdHigh)) :
    id \in Best(idx, v, Reaching(idx, h, 2, v, settings.thresholdHigh))

\* The step that takes the answer of the sentence embedding and returns
\* attaches the passage to a rank-2 node the vector matched below a rank-1
\* node it matched, adds no node, has made no label call, and returns
\* isNewNode false with the rank-2 score.
C20_Rank2Hit ==
  \A i \in DOMAIN drains :
    (/\ drains[i].caller = "direct"
     /\ drains[i].pc = "embed"
     /\ Len(results') = Len(results) + 1
     /\ results'[Len(results')].returned)
      => LET a  == drains[i]
             r  == results'[Len(results')]
             id == r.result.nodeId
             v  == r.sentenceEmbedding
         IN    /\ v \in Vectors
               /\ Rank2Match(index, v, id)
               /\ r.result = [nodeId |-> id, confidence |-> Score(index, v, id),
                              isNewNode |-> FALSE]
               /\ index.nodes[id].rank = 2
               /\ DOMAIN index'.nodes = DOMAIN index.nodes
               /\ \A n \in DOMAIN index.nodes :
                    index'.nodes[n].children = index.nodes[n].children
               /\ index'.nodes[id].promptIndices =
                    IF SeqHas(index.nodes[id].promptIndices, a.msg.index)
                    THEN index.nodes[id].promptIndices
                    ELSE Append(index.nodes[id].promptIndices, a.msg.index)
               /\ index'.embeddings = index.embeddings
               /\ r.labelCalls = 0
               /\ r.embedCalls = 1
               /\ index'.cache[a.hash] =
                    [nodeId |-> id, confidence |-> Score(index, v, id)]

\* A call whose sentence vector matched a rank-1 node and a rank-2 child of
\* it does not go on to a label call or to the full-text embedding.
C20_NoMiss ==
  \A i \in DOMAIN drains :
    drains[i].pc \in { "label4", "fullEmbed", "label5", "label6" }
      => \A id \in DOMAIN index.nodes :
           ~Rank2Match(index, drains[i].sentenceEmbedding, id)

\* C20: when the sentence vector reaches thresholdHigh on a rank-1 node and
\* then on a rank-2 child of it, the passage is attached to that rank-2 node,
\* no node is spawned, no label call is made, and the result has isNewNode
\* false and the rank-2 score as confidence.
C20_Rank2Match == []C20_NoMiss /\ [][C20_Rank2Hit]_vars

\* C20's case: a call has returned a rank-2 node it did not spawn after one
\* embedding call and no label call, with a score other than its parent's.
C20_Witness ==
  /\ mainPc = "engine"
  /\ \E k \in DOMAIN results :
       /\ results[k].returned
       /\ ~results[k].result.isNewNode
       /\ results[k].embedCalls = 1
       /\ results[k].labelCalls = 0
       /\ index.nodes[results[k].result.nodeId].rank = 2
       /\ \E parent \in DOMAIN index.nodes :
            /\ SeqHas(index.nodes[parent].children, results[k].result.nodeId)
            /\ EmbGet(index.embeddings, parent)
                 # EmbGet(index.embeddings, results[k].result.nodeId)

\* The positions in the Map of vectors of the entries with a vector that
\* score at least thr against vector f.
ReachingAll(idx, f, thr) ==
  { i \in 1..Len(idx.embeddings) :
      /\ Len(idx.embeddings[i].embedding) > 0
      /\ cosineSimilarity(f, idx.embeddings[i].embedding) >= thr }

\* The best match of the escalation scan: of the entries of highest score
\* among those reaching thr, the first one (empty when none reaches thr).
FirstBestAll(idx, f, thr) ==
  { i \in ReachingAll(idx, f, thr) :
      \A j \in ReachingAll(idx, f, thr) :
        LET si == cosineSimilarity(f, idx.embeddings[i].embedding)
            sj == cosineSimilarity(f, idx.embeddings[j].embedding)
        IN  sj < si \/ (sj = si /\ i <= j) }

\* The step that takes the answer of the full-text embedding and returns:
\* no rank-1 node reached thresholdHigh on the sentence vector, the node
\* returned is the scan's best match on the full-text vector and is not of
\* rank 1, no node is added, the passage is attached to it and the result has
\* isNewNode false and that score.
C21_DirectAttach ==
  \A i \in DOMAIN drains :
    (/\ drains[i].caller = "direct"
     /\ drains[i].pc = "fullEmbed"
     /\ Len(results') = Len(results) + 1
     /\ results'[Len(results')].returned)
      => LET a  == drains[i]
             r  == results'[Len(results')]
             id == r.result.nodeId
             f  == r.fullEmbedding
         IN  /\ f \in Vectors
             /\ Reaching(index, RootId, 1, a.sentenceEmbedding,
                         settings.thresholdHigh) = {}
             /\ \E p \in FirstBestAll(index, f, settings.thresholdLow) :
                  index.embeddings[p].id = id
             /\ HasNode(index, id)
             /\ index.nodes[id].rank # 1
             /\ r.result = [nodeId |-> id, confidence |-> Score(index, f, id),
                            isNewNode |-> FALSE]
             /\ r.result.confidence >= settings.thresholdLow
             /\ DOMAIN index'.nodes = DOMAIN index.nodes
             /\ \A n \in DOMAIN index.nodes :
                  index'.nodes[n].children = index.nodes[n].children
             /\ index'.nodes[id].promptIndices =
                  IF SeqHas(index.nodes[id].promptIndices, a.msg.index)
                  THEN index.nodes[id].promptIndices
                  ELSE Append(index.nodes[id].promptIndices, a.msg.index)
             /\ index'.embeddings = index.embeddings
             /\ r.labelCalls = 0
             /\ r.embedCalls = 2
             /\ index'.cache[a.hash] =
                  [nodeId |-> id, confidence |-> Score(index, f, id)]

\* A call whose full-text vector has its best match on a node not of rank 1
\* does not go on to a label call.
C21_NoSpawn ==
  \A i \in DOMAIN drains :
    (drains[i].pc \in { "label5", "label6" } /\ drains[i].embedCalls = 2
       /\ drains[i].fullEmbedding # <<>>)
      => \A p \in FirstBestAll(index, drains[i].fullEmbedding,
                               settings.thresholdLow) :
           /\ HasNode(index, index.embeddings[p].id)
           /\ index.nodes[index.embeddings[p].id].rank = 1

\* C21 (scenario D): when no rank-1 node reaches thresholdHigh on the
\* sentence vector and the best match of the full-text vector over all nodes
\* with a vector is a node not of rank 1 at a score of at least thresholdLow,
\* the passage is attached to that node, no node is spawned, and the result
\* has isNewNode false and that score as confidence.
C21_ScenarioD == []C21_NoSpawn /\ [][C21_DirectAttach]_vars

\* C21's case: a call has returned a rank-2 node it did not spawn after two
\* embedding calls and no label call.
C21_Witness ==
  /\ mainPc = "engine"
  /\ \E k \in DOMAIN results :
       /\ results[k].returned
       /\ ~results[k].result.isNewNode
       /\ results[k].embedCalls = 2
       /\ results[k].labelCalls = 0
       /\ index.nodes[results[k].result.nodeId].rank = 2

\* A call waits for the label of step 5 only when the best match of its
\* full-text vector over all nodes with a vector, at thresholdLow, is a
\* rank-1 node; that node and its score are the ones kept.
C22_Step5Header ==
  \A i \in DOMAIN drains :
    drains[i].pc = "label5"
      => LET a == drains[i]
         IN  /\ a.fullEmbedding \in Vectors
             /\ \E p \in FirstBestAll(index, a.fullEmbedding, settings.thresholdLow) :
                  index.embeddings[p].id = a.fullHit.id
             /\ HasNode(index, a.fullHit.id)
             /\ index.nodes[a.fullHit.id].rank = 1
             /\ a.fullHit.score = Score(index, a.fullEmbedding, a.fullHit.id)
             /\ a.fullHit.score >= settings.thresholdLow
             /\ a.embedCalls = 2

\* The step that takes the answer of step 5's label call and returns spawns
\* one rank-2 node under the rank-1 node matched, with the full-text vector
\* and the passage, and returns it with isNewNode true.
C22_NewSubheader ==
  \A i \in DOMAIN drains :
    (/\ drains[i].caller = "direct"
     /\ drains[i].pc = "label5"
     /\ Len(results') = Len(results) + 1
     /\ results'[Len(results')].returned)
      => LET a      == drains[i]
             r      == results'[Len(results')]
             id     == r.result.nodeId
             parent == a.fullHit.id
         IN  /\ r.result.isNewNode
             /\ ~HasNode(index, id)
             /\ DOMAIN index'.nodes = DOMAIN index.nodes \cup { id }
             /\ index'.nodes[parent].children =
                  Append(index.nodes[parent].children, id)
             /\ \A n \in DOMAIN index.nodes \ { parent } :
                  index'.nodes[n].children = index.nodes[n].children
             /\ index'.nodes[id].rank = 2
             /\ index'.nodes[id].children = <<>>
             /\ index'.nodes[id].promptIndices = << a.msg.index >>
             /\ EmbGet(index'.embeddings, id) = a.fullEmbedding
             /\ index'.cache[a.hash].nodeId = id

\* C22: when the best match of the escalation scan (score >= thresholdLow)
\* is a rank-1 node, a rank-2 node is spawned under that node with the
\* full-text vector, not the sentence vector, the passage is attached to the
\* new node, and the result has isNewNode true.
C22_EscalationHeader == []C22_Step5Header /\ [][C22_NewSubheader]_vars

\* C22's case: a call has returned a new rank-2 node after two embedding
\* calls whose full-text vector is not its sentence vector.
C22_Witness ==
  /\ mainPc = "engine"
  /\ \E k \in DOMAIN results :
       /\ results[k].returned
       /\ results[k].result.isNewNode
       /\ results[k].embedCalls = 2
       /\ results[k].fullEmbedding # results[k].sentenceEmbedding
       /\ index.nodes[results[k].result.nodeId].rank = 2
       /\ EmbGet(index.embeddings, results[k].result.nodeId)
            = results[k].fullEmbedding

\* The step that takes the answer of the full-text embedding does not end
\* the call with an error.
C23_NoThrow ==
  \A i \in DOMAIN drains :
    (/\ drains[i].caller = "direct"
     /\ drains[i].pc = "fullEmbed"
     /\ Len(results') = Len(results) + 1)
      => results'[Len(results')].returned

\* A call that waits for step 6's label after the escalation step had a
\* failed full-text embedding or a scan with no node at thresholdLow.
C23_Step6AfterScan ==
  \A i \in DOMAIN drains :
    (drains[i].pc = "label6" /\ drains[i].embedCalls = 2)
      => \/ drains[i].fullEmbedding = <<>>
         \/ ReachingAll(index, drains[i].fullEmbedding, settings.thresholdLow) = {}

\* The step that takes the answer of step 6's label call after the
\* escalation step and returns spawns a rank-1 node under root with the
\* sentence vector and returns it with confidence 0.
C23_NewHeader ==
  \A i \in DOMAIN drains :
    (/\ drains[i].caller = "direct"
     /\ drains[i].pc = "label6"
     /\ drains[i].embedCalls = 2
     /\ Len(results') = Len(results) + 1
     /\ results'[Len(results')].returned)
      => LET a  == drains[i]
             r  == results'[Len(results')]
             id == r.result.nodeId
         IN  /\ r.result = [nodeId |-> id, confidence |-> 0, isNewNode |-> TRUE]
             /\ ~HasNode(index, id)
             /\ DOMAIN index'.nodes = DOMAIN index.nodes \cup { id }
             /\ index'.nodes[RootId].children =
                  Append(index.nodes[RootId].children, id)
             /\ index'.nodes[id].rank = 1
             /\ index'.nodes[id].promptIndices = << a.msg.index >>
             /\ EmbGet(index'.embeddings, id) = a.sentenceEmbedding

\* C23: if the full-text embedding call of the escalation step fails, or the
\* scan finds no node at a score of at least thresholdLow, the classification
\* does not fail: it goes on to step 6 and spawns a rank-1 node under root
\* with the sentence vector and confidence 0.
C23_EscalationFallsThrough ==
  []C23_Step6AfterScan /\ [][C23_NoThrow /\ C23_NewHeader]_vars

\* The calls bestMatch has answered on its own.
MatchCalls == IF probe.op = "bestMatch" THEN DOMAIN probe.calls ELSE {}

\* The score of candidate i of the bestMatch harness.
CandScore(i) ==
  cosineSimilarity(probe.queryEmbedding, probe.candidates[i].embedding)

\* The candidates with a vector that score at least t.
Matching(t) ==
  { i \in DOMAIN probe.candidates :
      Len(probe.candidates[i].embedding) > 0 /\ CandScore(i) >= t }

\* C24: bestMatch returns none iff no candidate with a non-empty vector
\* scores at least the threshold; otherwise it returns the candidate of
\* maximum score and, among candidates of equal maximum score, the earliest.
C24_BestMatch ==
  \A k \in MatchCalls :
    LET t   == probe.calls[k].threshold
        hit == probe.calls[k].hit
    IN  /\ hit = NoHit <=> Matching(t) = {}
        /\ Matching(t) # {}
             => \E i \in Matching(t) :
                  /\ hit = [id |-> probe.candidates[i].id, score |-> CandScore(i)]
                  /\ \A j \in Matching(t) :
                       CandScore(j) < CandScore(i)
                         \/ (CandScore(j) = CandScore(i) /\ i <= j)

\* C24's case: a call returned the second candidate where the third has
\* the same score and the first a lower one that reaches the threshold.
C24_Witness ==
  \E k \in MatchCalls :
    /\ Len(probe.candidates) = 3
    /\ probe.calls[k].hit.id = "b"
    /\ 1 \in Matching(probe.calls[k].threshold)
    /\ CandScore(1) < CandScore(2)
    /\ CandScore(3) = CandScore(2)

\* C25: a candidate with an empty vector is never returned by bestMatch,
\* whatever the query and the threshold; over candidates that all have an
\* empty vector bestMatch returns none.
C25_EmptyNeverMatches ==
  \A k \in MatchCalls :
    /\ \A i \in DOMAIN probe.candidates :
         probe.candidates[i].embedding = <<>>
           => probe.calls[k].hit.id # probe.candidates[i].id
    /\ (\A i \in DOMAIN probe.candidates : probe.candidates[i].embedding = <<>>)
         => probe.calls[k].hit = NoHit

\* C25's case: calls at threshold 0, one over candidates that all have an
\* empty vector with an empty query, answered with none.
C25_Witness ==
  \E k \in MatchCalls :
    /\ probe.calls[k].threshold = 0
    /\ probe.queryEmbedding = <<>>
    /\ Len(probe.candidates) = 2
    /\ \A i \in DOMAIN probe.candidates : probe.candidates[i].embedding = <<>>
    /\ probe.calls[k].hit = NoHit

\* C26: a candidate whose vector has another length than the query vector
\* is never returned by bestMatch, at every threshold of the configurable
\* ranges, thresholdLow = 0 included.
C26_MismatchNeverWins ==
  \A k \in MatchCalls :
    \A i \in DOMAIN probe.candidates :
      Len(probe.candidates[i].embedding) # Len(probe.queryEmbedding)
        => probe.calls[k].hit.id # probe.candidates[i].id

\* C27: for one query and candidate list, a match at threshold t2 is the
\* match, with the same score, at every t1 <= t2, and none at t1 is none at
\* every t2 >= t1.
C27_Monotone ==
  \A k1 \in MatchCalls, k2 \in MatchCalls :
    probe.calls[k1].threshold <= probe.calls[k2].threshold
      => /\ probe.calls[k2].hit # NoHit
              => probe.calls[k1].hit = probe.calls[k2].hit
         /\ probe.calls[k1].hit = NoHit => probe.calls[k2].hit = NoHit

\* C27's case: two calls that matched at thresholds between which the first
\* candidate stops reaching the threshold, and the match is a later one.
C27_Witness ==
  \E k1 \in MatchCalls, k2 \in MatchCalls :
    /\ probe.calls[k1].threshold < probe.calls[k2].threshold
    /\ probe.calls[k2].hit # NoHit
    /\ probe.calls[k2].hit.id # "a"
    /\ 1 \in Matching(probe.calls[k1].threshold)
    /\ 1 \notin Matching(probe.calls[k2].threshold)

\* C28: the options page stores no settings with thresholdLow >=
\* thresholdHigh, whatever the adjustments of its two sliders before Save.
C28_LowBelowHigh ==
  (options.op = "options" /\ options.storage # <<>>)
    => options.storage[1].thresholdLow < options.storage[1].thresholdHigh

\* The number of occurrences of x in sequence s.
Occurrences(s, x) == Cardinality({ i \in 1..Len(s) : s[i] = x })

C30_InsertIdempotent ==
  [][(/\ probe'.op = "tree"
      /\ probe'.call = "insertPromptIntoNode")
       => LET id == probe'.nodeId
              pi == probe'.promptIndex
          IN  IF ~HasNode(index, id) THEN index' = index
              ELSE /\ Occurrences(index'.nodes[id].promptIndices, pi) = 1
                   /\ index'.nodes[id].promptIndices =
                        IF SeqHas(index.nodes[id].promptIndices, pi)
                        THEN index.nodes[id].promptIndices
                        ELSE Append(index.nodes[id].promptIndices, pi)
                   /\ \A n \in DOMAIN index.nodes \ { id } :
                        index'.nodes[n] = index.nodes[n]
                   /\ DOMAIN index'.nodes = DOMAIN index.nodes
                   /\ index'.embeddings = index.embeddings
                   /\ index'.cache = index.cache]_vars

\* C30's case: an index was inserted into a node that already held it,
\* after another index.
C30_Witness ==
  /\ probe.op = "tree"
  /\ probe.call = "insertPromptIntoNode"
  /\ probe.present
  /\ HasNode(index, probe.nodeId)
  /\ index.nodes[probe.nodeId].rank = 2
  /\ index.nodes[probe.nodeId].promptIndices = << probe.promptIndex, 1 - probe.promptIndex >>

\* C31: every spawnNode call yields an identifier that no node of the store
\* has, so that no node is overwritten and no children list holds an
\* identifier twice.
C31_FreshIdentifiers ==
  [][(probe'.op = "ids" /\ probe'.calls = probe.calls + 1)
       => /\ ~HasNode(index, probe'.nodeId)
          /\ \A n \in DOMAIN index.nodes : index'.nodes[n].rank = index.nodes[n].rank
          /\ \A n \in DOMAIN index'.nodes :
               Occurrences(index'.nodes[n].children, probe'.nodeId) <= 1]_vars

\* Without a key nothing runs: the queue is empty, no drainQueue or
\* classifyPrompt is active, no timer is set, initializeEmbeddings has
\* returned without a call, and the store is the one main restored.
C32_NothingRuns ==
  ~settings.geminiApiKey
    => /\ mainPc = "noKey"
       /\ processingQueue = <<>>
       /\ ~isProcessing
       /\ drains = <<>>
       /\ ~debounceTimer
       /\ initEmbeddings.pc = "done"
       /\ index.embeddings = <<>>
       /\ index.nodes = (IF stored = <<>> THEN createIndex.nodes ELSE stored[1].nodes)
       /\ index.cache = (IF stored = <<>> THEN createIndex.cache ELSE stored[1].cache)
       /\ index.prompts = (IF stored = <<>> THEN <<>> ELSE stored[1].prompts)

\* Without a key no step other than a reload changes the store, what is
\* persisted or the record of passages seen.
C32_NothingChanges ==
  (~settings.geminiApiKey /\ reloads' = reloads)
    => /\ index' = index
       /\ stored' = stored
       /\ processedHashes' = processedHashes
       /\ commitCount' = commitCount

\* C32: with no API key configured no passage is ever classified: the
\* content script starts neither the ingestion queue nor the observer,
\* initializeEmbeddings makes no capability call, and tree, cache and prompts
\* stay as restored.
C32_NoKeyNoClassification == []C32_NothingRuns /\ [][C32_NothingChanges]_vars

\* C32's case: the page was loaded without a key over a stored tree with a
\* topic, and a message that is not in the cache is in the page.
C32_Witness ==
  /\ ~settings.geminiApiKey
  /\ mainPc = "noKey"
  /\ reloads = 1
  /\ stored # <<>>
  /\ Cardinality(DOMAIN index.nodes) > 1
  /\ \E i \in DOMAIN dom : hashPrompt(dom[i].fullText) \notin DOMAIN index.cache

\* C33: recount changes only promptCount fields (no node's children,
\* promptIndices, label or rank, no vector, no cache entry), and a recount
\* that follows a recount leaves the store as it is.
C33_RecountIdempotent ==
  [][(probe'.op = "tree" /\ probe'.call = "updatePromptCounts")
       => /\ DOMAIN index'.nodes = DOMAIN index.nodes
          /\ \A n \in DOMAIN index.nodes :
               /\ index'.nodes[n].children = index.nodes[n].children
               /\ index'.nodes[n].promptIndices = index.nodes[n].promptIndices
               /\ index'.nodes[n].label = index.nodes[n].label
               /\ index'.nodes[n].rank = index.nodes[n].rank
               /\ index'.nodes[n].id = index.nodes[n].id
          /\ index'.nodeKeys = index.nodeKeys
          /\ index'.embeddings = index.embeddings
          /\ index'.cache = index.cache
          /\ index'.prompts = index.prompts
          /\ probe'.present => index' = index]_vars

\* C33's case: a recount followed a recount on a store where root counts
\* two passages held by a node below it.
C33_Witness ==
  /\ probe.op = "tree"
  /\ probe.call = "updatePromptCounts"
  /\ probe.present
  /\ index.nodes[RootId].promptCount = 2
  /\ index.nodes[RootId].promptIndices = <<>>
  /\ \E n \in DOMAIN index.nodes :
       index.nodes[n].rank = 2 /\ Len(index.nodes[n].promptIndices) = 2

\* The indices of the prompt records.
RecordedIndices(idx) == { idx.prompts[k].index : k \in 1..Len(idx.prompts) }

\* C34: whenever the drain loop is between passages (at the head of its
\* loop, or not running), every passage index in some node's promptIndices
\* has a prompt record and every prompt record's index is attached to some
\* node, also after a failed persistence call that followed a successful
\* classification.
C34_RecordsAgreeWithTree ==
  (\A i \in DOMAIN drains : drains[i].pc = "loop")
    => AttachedIndices(index) = RecordedIndices(index)

\* What storage holds of a conversation: its cache, nodes and prompts.
StoredCache2(st) == IF st = <<>> THEN EmptyMap ELSE st[1].cache

\* Every stored fingerprint is in processedHashes, and no classification
\* is under way for a passage whose fingerprint is in processedHashes.
C35_NoCallForProcessed ==
  /\ DOMAIN StoredCache2(stored) \subseteq processedHashes
  /\ \A i \in DOMAIN drains :
       drains[i].pc \in { "embed", "label4", "fullEmbed", "label5", "label6" }
         => drains[i].hash \notin processedHashes

\* A step of a page load that changes nodes, cache or prompts is a step of
\* drainQueue on a passage whose fingerprint is not stored.
C35_StoredLeftAlone ==
  (reloads' = reloads
     /\ (index'.nodes # index.nodes \/ index'.cache # index.cache
           \/ index'.prompts # index.prompts))
    => \E i \in DOMAIN drains :
         LET h == IF drains[i].pc = "loop" /\ processingQueue # <<>>
                  THEN hashPrompt(Head(processingQueue).fullText)
                  ELSE drains[i].hash
         IN  h \notin DOMAIN StoredCache2(stored)

\* A reload restores what storage holds: nodes, cache and prompts are the
\* stored ones and every stored fingerprint is in processedHashes.
C35_RestoredAsStored ==
  (reloads' = reloads + 1 /\ settings'.geminiApiKey)
    => /\ processedHashes' = DOMAIN StoredCache2(stored')
       /\ index'.cache = StoredCache2(stored')
       /\ stored' # <<>> => /\ index'.nodes = stored'[1].nodes
                            /\ index'.prompts = stored'[1].prompts

\* Every passage classified before a reload keeps its fingerprint in
\* processedHashes through the reload.
C35_ClassifiedStayProcessed ==
  (reloads' = reloads + 1 /\ settings.geminiApiKey /\ settings'.geminiApiKey)
    => processedHashes \subseteq processedHashes'

\* C35 as amended: after a reload, re-offering a passage whose classification
\* had reached storage makes no capability call for classification and leaves
\* nodes, prompts and cache as restored.
C35_ReloadIdempotentForStored ==
  /\ []C35_NoCallForProcessed
  /\ [][C35_StoredLeftAlone /\ C35_RestoredAsStored]_vars

\* C35: reload is idempotent: after restoring a persisted snapshot,
\* re-offering every passage that was successfully classified before the
\* reload makes no capability call for classification and leaves nodes,
\* prompts and cache unchanged.
C35_ReloadIdempotent ==
  /\ []C35_NoCallForProcessed
  /\ [][C35_StoredLeftAlone /\ C35_RestoredAsStored
          /\ C35_ClassifiedStayProcessed]_vars

\* C35's case: after a reload over a stored tree the page's message, whose
\* fingerprint is stored, has been offered by the initial parse, and the
\* store is the stored one.
C35_Witness ==
  /\ reloads = 1
  /\ settings.geminiApiKey
  /\ mainPc = "observing"
  /\ stored # <<>>
  /\ dom # <<>>
  /\ \A i \in DOMAIN dom : hashPrompt(dom[i].fullText) \in DOMAIN stored[1].cache
  /\ drains = <<>>
  /\ index.nodes = stored[1].nodes
  /\ index.prompts = stored[1].prompts
  /\ Cardinality(DOMAIN index.nodes) > 1

\* The activations of ds that wait for saveConversation.
Saving(ds) == { i \in DOMAIN ds : ds[i].pc = "save" }

\* A saveConversation request under way belongs to a passage that was
\* committed in this page load, and carries the store as it stands:
\* prompts, nodes (with their counts brought up to date) and cache, and no
\* vectors.
C36_SaveCarriesStore ==
  \A i \in Saving(drains) :
    /\ drains[i].hash = hashPrompt(drains[i].msg.fullText)
    /\ drains[i].hash \in DOMAIN commitCount
    /\ drains[i].hash \in DOMAIN index.cache
    /\ Len(drains[i].saving) = 1
    /\ LET sent == drains[i].saving[1]
       IN  /\ "embeddings" \notin DOMAIN sent
           /\ sent.prompts = index.prompts
           /\ sent.nodes = index.nodes
           /\ sent.cache = index.cache
           /\ \A id \in DOMAIN sent.nodes :
                sent.nodes[id].promptCount =
                  Len(sent.nodes[id].promptIndices)
                    + ChildCountSum(sent.nodes, sent.nodes[id].children)
           /\ \E n \in DOMAIN sent.nodes :
                SeqHas(sent.nodes[n].promptIndices, drains[i].msg.index)

\* Within a page load, a step issues a saveConversation request exactly
\* when it commits a passage, and it issues one request, for that passage.
C36_OneSavePerCommit ==
  reloads' = reloads =>
    LET issued == { i \in Saving(drains') :
                      i \notin Saving(drains) \/ drains'[i].saving # drains[i].saving }
    IN  IF commitCount' # commitCount
        THEN /\ Cardinality(issued) = 1
             /\ \A i \in issued : commitCount' = Bump(commitCount, drains'[i].hash)
        ELSE issued = {}

\* A passage that drainQueue skips, or whose classification throws, leads
\* to no saveConversation request: the activation is back at the loop head.
C36_NoSaveAfterFailure ==
  \A i \in DOMAIN drains' :
    (/\ i \in DOMAIN drains
     /\ drains[i].pc \in ClassifyPcs \cup { "loop" }
     /\ drains'[i].outcome # drains[i].outcome
     /\ drains'[i].outcome \notin { "none", "saved", "saveFailed" })
      => /\ drains'[i].pc = "loop"
         /\ Saving(drains') = {}
         /\ stored' = stored

\* C36: saveConversation is called once after each passage that was
\* classified, with the store as it stands after the commit and the recount
\* and without vectors, and is not called for a passage whose classification
\* failed or that was skipped.
C36_SaveOncePerClassified ==
  /\ []C36_SaveCarriesStore
  /\ [][C36_OneSavePerCommit /\ C36_NoSaveAfterFailure]_vars

\* C36's case: a passage was committed to a node other than root which
\* holds a vector, and its saveConversation request is under way.
C36_Witness ==
  \E i \in Saving(drains) :
    /\ drains[i].result.nodeId # RootId
    /\ EmbHas(index.embeddings, drains[i].result.nodeId)
    /\ Len(index.prompts) >= 2
    /\ drains[i].failedInPass

\* The nodes of idx other than root.
Topics(idx) == DOMAIN idx.nodes \ { RootId }

\* No node other than root is without a passage.
C37_TopicsCounted ==
  \A id \in Topics(index) : index.nodes[id].promptCount >= 1

\* The step that adds a node is the step in which the call returns, with the
\* new node as its result and the passage of the call attached to it.
C37_SpawnAttaches ==
  Topics(index') # Topics(index)
    => /\ Len(results') = Len(results) + 1
       /\ LET r == results'[Len(results')]
          IN  /\ r.returned
              /\ r.result.isNewNode
              /\ Topics(index') = Topics(index) \cup { r.result.nodeId }
              /\ r.result.nodeId \notin Topics(index)
              /\ SeqHas(index'.nodes[r.result.nodeId].promptIndices, r.input.index)

\* C37: from a fresh index, after every classifyPrompt call that returns,
\* every node other than root has promptCount >= 1, the passage that caused
\* a spawn being attached to the spawned node in the run that spawned it.
C37_NoEmptyTopics ==
  /\ []C37_TopicsCounted
  /\ [][C37_SpawnAttaches]_vars

\* C37's case: three calls have returned and each spawned a node, one of
\* them a subheader, and each node holds one passage.
C37_Witness ==
  /\ mainPc = "engine"
  /\ drains = <<>>
  /\ Len(results) = MaxCalls
  /\ Cardinality(Topics(index)) = 3
  /\ \E id \in Topics(index) : index.nodes[id].rank = 2
  /\ \A id \in Topics(index) : Len(index.nodes[id].promptIndices) = 1

\* The requests of a call under way: at most two embeddings and one label;
\* the second embedding is asked for only after the rank-1 scan missed in a
\* tree that has a node other than root; a label is asked for once.
C38_RequestsUnderWay ==
  \A i \in DOMAIN drains :
    LET a == drains[i]
    IN  /\ a.embedCalls <= 2
        /\ a.labelCalls <= 1
        /\ a.pc = "embed" => a.embedCalls = 1 /\ a.labelCalls = 0
        /\ a.pc = "fullEmbed"
             => /\ a.embedCalls = 2 /\ a.labelCalls = 0
                /\ a.rank1Hit = NoHit
                /\ Topics(index) # {}
        /\ a.embedCalls = 2 => a.rank1Hit = NoHit /\ Topics(index) # {}
        /\ a.pc \in LabelPcs => a.labelCalls = 1

\* The requests of the calls that ended.
C38_RequestsOfCall ==
  \A k \in DOMAIN results :
    results[k].embedCalls <= 2 /\ results[k].labelCalls <= 1

\* A call that asked for a label ends by returning a node it spawned, the
\* one node added to the tree.
C38_LabelMeansOneSpawn ==
  Len(results') = Len(results) + 1
    => LET r == results'[Len(results')]
       IN  r.labelCalls = 1
             => /\ r.returned
                /\ r.result.isNewNode
                /\ Cardinality(Topics(index')) = Cardinality(Topics(index)) + 1
                /\ r.result.nodeId \in Topics(index') \ Topics(index)

\* C38: every classifyPrompt call makes at most two embedding calls (the
\* second only when the rank-1 scan misses and the tree has a node other
\* than root) and at most one label call, and a label call is made only in
\* a call that spawns exactly one node.
C38_CallBudget ==
  /\ [](C38_RequestsUnderWay /\ C38_RequestsOfCall)
  /\ [][C38_LabelMeansOneSpawn]_vars

\* The part of C38 that counts requests.
C38_Counts == C38_RequestsUnderWay /\ C38_RequestsOfCall

\* The requests the proxy has dealt with and the one it has just answered.
Dealt ==
  probe.answered
    \o (IF probe.pc = "sent"
        THEN << [msg |-> probe.msg, fault |-> probe.fault,
                 responses |-> probe.responses, label |-> <<>>] >>
        ELSE <<>>)

\* One response for each request dealt with, none yet for the request the
\* proxy is working on.
C39_OneResponse ==
  /\ \A k \in DOMAIN Dealt : Len(Dealt[k].responses) = 1
  /\ probe.pc \in { "idle", "settings", "fetch", "text", "json" }
       => probe.responses = <<>>

\* A fetch error, a status outside 2xx, an exception that reaches the
\* listener and an embedding without values are answered {ok: false}; so is
\* a request without key or type.  An embedding answered {ok: true} has values.
C39_FailuresAnswered ==
  \A k \in DOMAIN Dealt :
    LET d == Dealt[k]
        r == d.responses[1]
    IN  /\ d.fault # "none" => r = Failure
        /\ d.msg.type = "GEMINI_EMBED" /\ r.kind = "ok" => r.embedding \in Vectors
        /\ d.msg.type = "GEMINI_LABEL" /\ r.kind = "ok" => r.label # <<>>
        /\ (d.fault = "none" /\ d.msg.type \in { "GEMINI_EMBED", "GEMINI_LABEL" })
             => r.kind = "ok"

\* Every vector registered for a node has components.
C39_VectorsNotEmpty ==
  \A i \in DOMAIN index.embeddings :
    /\ index.embeddings[i].embedding # <<>>
    /\ index.embeddings[i].id \in Topics(index)

\* C39: the proxy answers every embedding or label request with one
\* response; a fetch error, a status outside 2xx, a thrown exception and an
\* empty embedding array are answered {ok: false}; so every vector
\* registered for a node is non-empty.
C39_ProxyAnswers ==
  probe.op = "proxy"
    => C39_OneResponse /\ C39_FailuresAnswered /\ C39_VectorsNotEmpty

\* C39's case: the embedding of the first node came without values and was
\* answered {ok: false}, the second node got its vector, and a label request
\* ended in an exception.
C39_Witness ==
  /\ probe.op = "proxy"
  /\ Len(probe.answered) = MaxProxyRequests
  /\ \E k \in DOMAIN probe.answered :
       /\ probe.answered[k].msg.type = "GEMINI_EMBED"
       /\ probe.answered[k].fault = "emptyValues"
  /\ \E k \in DOMAIN probe.answered :
       /\ probe.answered[k].msg.type = "GEMINI_LABEL"
       /\ probe.answered[k].fault = "exception"
  /\ ~EmbHas(index.embeddings, "node_1")
  /\ EmbHas(index.embeddings, "node_2")

====
